---- MODULE Spec2Model ----
(***************************************************************************)
(* Model of the manifold scene server with persistence                     *)
(* (src/unnamed/part_000, lines 408-873): the in-memory scene graph, the   *)
(* identifier counter, the version counter, the persisted record and the   *)
(* seven tool handlers.                                                    *)
(*                                                                         *)
(* Numbers.  Coordinates, scales and dimensions are integers; the menus    *)
(* below use even dimensions so that `x / 2` is exact.  The identifier     *)
(* counter and the two numeric fields of the persisted record can be       *)
(* fractional in the program (a hand-edited record, an inferred counter),  *)
(* so they are kept in fixed point, in halves: a value v is held as 2 * v.  *)
(*                                                                         *)
(* Strings.  Identifiers and names are strings.  A color is a sequence of  *)
(* one-character strings, so that the regular expression of isHexColor is  *)
(* evaluated character by character.                                       *)
(***************************************************************************)
EXTENDS Integers, Sequences, FiniteSets, TLC

VARIABLES
    pc,            \* "boot" before loadPersistedState has run, then "serving"
    env,           \* process.env: [ENABLE_EXECUTE_CODE |-> "true" | "unset"]
    sceneState,    \* [objects |-> id :> object, connections |-> sequence]
    idCounter,     \* the identifier counter (in halves, see Whole)
    sceneVersion,  \* the version counter
    disk,          \* content of .mcp-use/scene-state.json
    persistCalls,  \* number of persistState() calls made so far
    lastWrite,     \* outcome of the last persistState(): "none", "ok", "failed"
    reply,         \* what the last handler returned to its caller
    issued,        \* history: identifiers returned by add_object since the
                   \* graph instance was created (boot or clear_scene)
    calls,         \* the tool calls of the interleaved specification, in the
                   \* order their handlers started, each with the await its
                   \* persistState() has reached; empty where a handler is
                   \* one step
    heap           \* the JavaScript objects behind sceneState, by reference:
                   \* what each reference denotes and which references the
                   \* handlers have returned; followed in HeapSpec only

vars == <<pc, env, sceneState, idCounter, sceneVersion, disk, persistCalls, lastWrite, reply, issued,
          calls, heap>>

----------------------------------------------------------------------------
(* Bounds of the model *)

\* how many commits (successful mutations) one run may make
MaxCommits == 3

----------------------------------------------------------------------------
(* Numbers in fixed point *)

\* the number n, held in halves
Whole(n) == 2 * n
IsWhole(v) == v % 2 = 0
\* Math.floor
Floor(v) == 2 * (v \div 2)
\* Math.max of two numbers
Max(a, b) == IF a >= b THEN a ELSE b

\* template-literal formatting of a number: 3 -> "3", 2.5 -> "2.5"
NumToString(v) ==
    IF IsWhole(v) THEN ToString(v \div 2)
    ELSE ToString(v \div 2) \o ".5"

----------------------------------------------------------------------------
(* Small helpers for optional fields *)

Has(r, f) == f \in DOMAIN r

Vec(x, y, z) == [x |-> x, y |-> y, z |-> z]

EmptyMap == <<>>

\* { ...m, [k]: v }
Put(m, k, v) == [i \in DOMAIN m \cup {k} |-> IF i = k THEN v ELSE m[i]]

\* const { [k]: _, ...rest } = m
Without(m, k) == [i \in DOMAIN m \ {k} |-> m[i]]

----------------------------------------------------------------------------
(* References.  A JavaScript object is held by reference: the variable     *)
(* sceneState refers to an object whose `objects` field refers to the map  *)
(* and whose `connections` field refers to the list; the map refers to the *)
(* objects of the scene.  A reference is a number.                         *)

\* the heap after `let sceneState = { objects: {}, connections: [] }`
FirstHeap ==
    [objectsAt |-> 1, connectionsAt |-> 2,
     maps |-> (1 :> EmptyMap), lists |-> (2 :> <<>>), objs |-> EmptyMap,
     next |-> 3, handed |-> {}]

\* the graph the references of sceneState denote
Deref(h) ==
    [objects |-> [id \in DOMAIN h.maps[h.objectsAt] |-> h.objs[h.maps[h.objectsAt][id]]],
     connections |-> h.lists[h.connectionsAt]]

----------------------------------------------------------------------------
(* Geometry helpers *)

Faces == {"top", "bottom", "left", "right", "front", "back", "center"}

\* mutant: full extents instead of half extents
getHalfExtentsFull(o) ==
    LET s == o.scale IN
    CASE o.type = "box"      -> Vec(o.width * s.x, o.height * s.y, o.depth * s.z)
      [] o.type = "sphere"   -> Vec(o.radius * s.x, o.radius * s.y, o.radius * s.z)
      [] o.type = "cylinder" -> Vec(o.radius * s.x, o.height * s.y, o.radius * s.z)
      [] o.type = "cone"     -> Vec(o.radius * s.x, o.height * s.y, o.radius * s.z)
      [] o.type = "plane"    -> Vec(o.width * s.x, 0, o.depth * s.z)

\* mutant: the cone takes its radius for its half height, as the sphere does
getHalfExtentsConeAsSphere(o) ==
    LET s == o.scale IN
    CASE o.type = "box"      -> Vec((o.width \div 2) * s.x, (o.height \div 2) * s.y, (o.depth \div 2) * s.z)
      [] o.type = "sphere"   -> Vec(o.radius * s.x, o.radius * s.y, o.radius * s.z)
      [] o.type = "cylinder" -> Vec(o.radius * s.x, (o.height \div 2) * s.y, o.radius * s.z)
      [] o.type = "cone"     -> Vec(o.radius * s.x, o.radius * s.y, o.radius * s.z)
      [] o.type = "plane"    -> Vec((o.width \div 2) * s.x, 0, (o.depth \div 2) * s.z)

getHalfExtents(o) ==
    LET s == o.scale IN
    CASE o.type = "box"      -> Vec((o.width \div 2) * s.x, (o.height \div 2) * s.y, (o.depth \div 2) * s.z)
      [] o.type = "sphere"   -> Vec(o.radius * s.x, o.radius * s.y, o.radius * s.z)
      [] o.type = "cylinder" -> Vec(o.radius * s.x, (o.height \div 2) * s.y, o.radius * s.z)
      [] o.type = "cone"     -> Vec(o.radius * s.x, (o.height \div 2) * s.y, o.radius * s.z)
      [] o.type = "plane"    -> Vec((o.width \div 2) * s.x, 0, (o.depth \div 2) * s.z)

\* mutant: the bottom face has the sign of the top face
faceOffsetBottomUp(o, face) ==
    LET h == getHalfExtents(o) IN
    CASE face = "top"    -> Vec(0, h.y, 0)
      [] face = "bottom" -> Vec(0, h.y, 0)
      [] face = "left"   -> Vec(-h.x, 0, 0)
      [] face = "right"  -> Vec(h.x, 0, 0)
      [] face = "front"  -> Vec(0, 0, h.z)
      [] face = "back"   -> Vec(0, 0, -h.z)
      [] face = "center" -> Vec(0, 0, 0)

faceOffset(o, face) ==
    LET h == getHalfExtents(o) IN
    CASE face = "top"    -> Vec(0, h.y, 0)
      [] face = "bottom" -> Vec(0, -h.y, 0)
      [] face = "left"   -> Vec(-h.x, 0, 0)
      [] face = "right"  -> Vec(h.x, 0, 0)
      [] face = "front"  -> Vec(0, 0, h.z)
      [] face = "back"   -> Vec(0, 0, -h.z)
      [] face = "center" -> Vec(0, 0, 0)

\* mutant: the offsets are applied to the position `from` has
computeConnectPosFromWhereItIs(from, fa, to, fb) ==
    LET a == faceOffset(from, fa)
        b == faceOffset(to, fb)
    IN  Vec(from.position.x + b.x - a.x,
            from.position.y + b.y - a.y,
            from.position.z + b.z - a.z)

\* mutant: the offset of from's face is added instead of subtracted
computeConnectPosAdds(from, fa, to, fb) ==
    LET a == faceOffset(from, fa)
        b == faceOffset(to, fb)
    IN  Vec(to.position.x + b.x + a.x,
            to.position.y + b.y + a.y,
            to.position.z + b.z + a.z)

\* from.position = to.position + offset(face_b on to) - offset(face_a on from)

computeConnectPos(from, fa, to, fb) ==
    LET a == faceOffset(from, fa)
        b == faceOffset(to, fb)
    IN  Vec(to.position.x + b.x - a.x,
            to.position.y + b.y - a.y,
            to.position.z + b.z - a.z)

----------------------------------------------------------------------------
(* Validation helpers *)

HexDigits ==
    {"0", "1", "2", "3", "4", "5", "6", "7", "8", "9",
     "a", "b", "c", "d", "e", "f", "A", "B", "C", "D", "E", "F"}

\* /^#[0-9a-fA-F]{6}$/.test(s)
isHexColor(s) ==
    /\ Len(s) = 7
    /\ s[1] = "#"
    /\ \A i \in 2..7 : s[i] \in HexDigits

\* JavaScript truthiness of a string: only "" is falsy
Truthy(s) == Len(s) > 0

\* sceneState.objects[id] is an object
ObjectPresent(id) == id \in DOMAIN sceneState.objects

----------------------------------------------------------------------------
(* Identifiers *)

\* `obj_${n}`
ObjId(v) == "obj_" \o NumToString(v)

\* largest number looked for when an identifier's numeric suffix is parsed
MaxIdNumber == 12

\* Number(k.slice(4)) for a key that starts with "obj_"; -1 stands for NaN
\* and for a key without the prefix (both are filtered out by n >= 1)
KeyNumber(k) ==
    LET hits == {v \in 0..Whole(MaxIdNumber) : k = ObjId(v)}
    IN  IF hits = {} THEN -1 ELSE CHOOSE v \in hits : TRUE

----------------------------------------------------------------------------
(* The persisted record *)

NoFile == [kind |-> "missing"]
Garbage == [kind |-> "garbage"]
JsonFile(fields) == [kind |-> "json", fields |-> fields]
JNum(v) == [t |-> "num", v |-> v]
JStr(x) == [t |-> "str", s |-> x]

\* JSON.stringify({ sceneState, idCounter, sceneVersion }, null, 2)
Serialize(st, counter, version) ==
    JsonFile([sceneState   |-> st,
              idCounter    |-> JNum(counter),
              sceneVersion |-> JNum(Whole(version))])

\* typeof v === "number" && Number.isFinite(v) && v >= min
ValidNumber(f, name, min) ==
    /\ Has(f, name)
    /\ f[name].t = "num"
    /\ f[name].v >= Whole(min)

\* mutant: a record without a version loads as version 1
LoadResultVersionOne(file, st, counter, version) ==
    IF file.kind # "json"
    THEN [sceneState |-> st, idCounter |-> counter, sceneVersion |-> version]
    ELSE
      LET f == file.fields
          st1 == IF /\ Has(f, "sceneState")
                    /\ Has(f.sceneState, "objects")
                    /\ Has(f.sceneState, "connections")
                 THEN f.sceneState ELSE st
          nums == {n \in {KeyNumber(k) : k \in DOMAIN st1.objects} : n >= Whole(1)}
          max == IF nums # {} THEN CHOOSE n \in nums : \A m \in nums : m <= n ELSE 0
          counter1 == IF ValidNumber(f, "idCounter", 1)
                      THEN Floor(f.idCounter.v)
                      ELSE Max(counter, max + Whole(1))
          version1 == IF ValidNumber(f, "sceneVersion", 0)
                      THEN Floor(f.sceneVersion.v) \div 2
                      ELSE 1
      IN  [sceneState |-> st1, idCounter |-> counter1, sceneVersion |-> version1]

\* mutant: the counter is inferred as the largest suffix itself
LoadResultNoPlusOne(file, st, counter, version) ==
    IF file.kind # "json"
    THEN [sceneState |-> st, idCounter |-> counter, sceneVersion |-> version]
    ELSE
      LET f == file.fields
          st1 == IF /\ Has(f, "sceneState")
                    /\ Has(f.sceneState, "objects")
                    /\ Has(f.sceneState, "connections")
                 THEN f.sceneState ELSE st
          nums == {n \in {KeyNumber(k) : k \in DOMAIN st1.objects} : n >= Whole(1)}
          max == IF nums # {} THEN CHOOSE n \in nums : \A m \in nums : m <= n ELSE 0
          counter1 == IF ValidNumber(f, "idCounter", 1)
                      THEN Floor(f.idCounter.v)
                      ELSE Max(counter, max)
          version1 == IF ValidNumber(f, "sceneVersion", 0)
                      THEN Floor(f.sceneVersion.v) \div 2
                      ELSE version
      IN  [sceneState |-> st1, idCounter |-> counter1, sceneVersion |-> version1]

\* loadPersistedState, as a function of the file and of the values in
\* memory when it runs; a missing or unparsable file throws before any
\* assignment
LoadResult(file, st, counter, version) ==
    IF file.kind # "json"
    THEN [sceneState |-> st, idCounter |-> counter, sceneVersion |-> version]
    ELSE
      LET f == file.fields
          st1 == IF /\ Has(f, "sceneState")
                    /\ Has(f.sceneState, "objects")
                    /\ Has(f.sceneState, "connections")
                 THEN f.sceneState ELSE st
          nums == {n \in {KeyNumber(k) : k \in DOMAIN st1.objects} : n >= Whole(1)}
          max == IF nums # {} THEN CHOOSE n \in nums : \A m \in nums : m <= n ELSE 0
          counter1 == IF ValidNumber(f, "idCounter", 1)
                      THEN Floor(f.idCounter.v)
                      ELSE Max(counter, max + Whole(1))
          version1 == IF ValidNumber(f, "sceneVersion", 0)
                      THEN Floor(f.sceneVersion.v) \div 2
                      ELSE version
      IN  [sceneState |-> st1, idCounter |-> counter1, sceneVersion |-> version1]

\* mutant: the record is read again while the server serves
loadPersistedStateAnyTime ==
    /\ LET r == LoadResult(disk, sceneState, idCounter, sceneVersion) IN
         /\ sceneState' = r.sceneState
         /\ idCounter' = r.idCounter
         /\ sceneVersion' = r.sceneVersion
    /\ pc' = "serving"
    /\ UNCHANGED <<env, disk, persistCalls, lastWrite, reply, issued, calls, heap>>

loadPersistedState ==
    /\ pc = "boot"
    /\ LET r == LoadResult(disk, sceneState, idCounter, sceneVersion) IN
         /\ sceneState' = r.sceneState
         /\ idCounter' = r.idCounter
         /\ sceneVersion' = r.sceneVersion
    /\ pc' = "serving"
    /\ UNCHANGED <<env, disk, persistCalls, lastWrite, reply, issued, calls, heap>>

\* persistState, run to its end within the step of its handler: the write
\* either lands or fails (the failure is caught and logged, the file keeps
\* its content)
persistState(st, counter, version) ==
    /\ persistCalls' = persistCalls + 1
    /\ calls' = calls
    /\ \/ /\ disk' = Serialize(st, counter, version)
          /\ lastWrite' = "ok"
       \/ /\ disk' = disk
          /\ lastWrite' = "failed"

\* mutant: the version is left as it was
commitStateNoVersion(st, counter) ==
    /\ sceneVersion' = sceneVersion
    /\ persistState(st, counter, sceneVersion)

\* mutant: a commit whose write fails takes the version back
commitStateUndoneOnFailure(st, counter) ==
    /\ persistState(st, counter, sceneVersion + 1)
    /\ sceneVersion' = IF lastWrite' = "failed" THEN sceneVersion ELSE sceneVersion + 1

\* commitState, run with the scene and the counter the handler has just
\* assigned
commitState(st, counter) ==
    /\ sceneVersion' = sceneVersion + 1
    /\ persistState(st, counter, sceneVersion + 1)

----------------------------------------------------------------------------
(* Tool handlers.  Each handler is one step: validation, mutation, commit   *)
(* and the reply.  A handler that would commit is cut off once MaxCommits   *)
(* commits have been made.                                                  *)

Serving == pc = "serving"
MayCommit == persistCalls < MaxCommits

\* a reply is what the caller receives: the error it names, or "none" and
\* the payload of the success
NoReply == [error |-> "none"]
Err(e) == [error |-> e]

\* mutant: the identifier is allocated before the request is validated
FailsBurnsId(e) ==
    /\ reply' = Err(e)
    /\ idCounter' = idCounter + Whole(1)
    /\ UNCHANGED <<pc, env, heap, sceneState, sceneVersion, disk, persistCalls, lastWrite, issued,
                   calls>>

\* a handler that returns an error before it has changed anything
Fails(e) ==
    /\ reply' = Err(e)
    /\ UNCHANGED <<pc, env, heap, sceneState, idCounter, sceneVersion, disk,
                   persistCalls, lastWrite, issued, calls>>

get_scene_state ==
    /\ Serving
    /\ reply' = [error |-> "none",
                 objects |-> sceneState.objects,
                 connections |-> sceneState.connections,
                 version |-> sceneVersion]
    /\ UNCHANGED <<pc, env, heap, sceneState, idCounter, sceneVersion, disk,
                   persistCalls, lastWrite, issued, calls>>

defaultPos == Vec(0, 0, 0)
defaultScale == Vec(1, 1, 1)
defaultColor == <<"#", "8", "8", "8", "8", "8", "8">>

\* v ?? d for an optional parameter
OrElse(params, f, d) == IF Has(params, f) THEN params[f] ELSE d

\* color && !isHexColor(color)
ColorRejected(params) ==
    /\ Has(params, "color")
    /\ Truthy(params.color)
    /\ ~isHexColor(params.color)

\* mutant: every dimension the request supplies is stored
NewObjectKeepsGivenDimensions(type, id, params) ==
    LET base == [id |-> id,
                 name |-> params.name,
                 position |-> OrElse(params, "position", defaultPos),
                 scale |-> OrElse(params, "scale", defaultScale),
                 color |-> OrElse(params, "color", defaultColor)]
        dims ==
          CASE type = "box" ->
                 [type |-> "box", width |-> OrElse(params, "width", 100),
                  height |-> OrElse(params, "height", 100),
                  depth |-> OrElse(params, "depth", 100)]
            [] type = "sphere" ->
                 [type |-> "sphere", radius |-> OrElse(params, "radius", 50)]
            [] type = "cylinder" ->
                 [type |-> "cylinder", radius |-> OrElse(params, "radius", 25),
                  height |-> OrElse(params, "height", 100)]
            [] type = "cone" ->
                 [type |-> "cone", radius |-> OrElse(params, "radius", 25),
                  height |-> OrElse(params, "height", 100)]
            [] type = "plane" ->
                 [type |-> "plane", width |-> OrElse(params, "width", 200),
                  depth |-> OrElse(params, "depth", 200)]
        given == {"width", "height", "depth", "radius"} \cap DOMAIN params
    IN  [f \in DOMAIN base \cup DOMAIN dims \cup given |->
            IF f \in DOMAIN dims THEN dims[f]
            ELSE IF f \in given THEN params[f] ELSE base[f]]

\* mutant: cylinder and cone take the default radius of the sphere
NewObjectSharedRadius(type, id, params) ==
    LET base == [id |-> id,
                 name |-> params.name,
                 position |-> OrElse(params, "position", defaultPos),
                 scale |-> OrElse(params, "scale", defaultScale),
                 color |-> OrElse(params, "color", defaultColor)]
        dims ==
          CASE type = "box" ->
                 [type |-> "box", width |-> OrElse(params, "width", 100),
                  height |-> OrElse(params, "height", 100),
                  depth |-> OrElse(params, "depth", 100)]
            [] type = "sphere" ->
                 [type |-> "sphere", radius |-> OrElse(params, "radius", 50)]
            [] type = "cylinder" ->
                 [type |-> "cylinder", radius |-> OrElse(params, "radius", 50),
                  height |-> OrElse(params, "height", 100)]
            [] type = "cone" ->
                 [type |-> "cone", radius |-> OrElse(params, "radius", 50),
                  height |-> OrElse(params, "height", 100)]
            [] type = "plane" ->
                 [type |-> "plane", width |-> OrElse(params, "width", 200),
                  depth |-> OrElse(params, "depth", 200)]
    IN  [f \in DOMAIN base \cup DOMAIN dims |->
            IF f \in DOMAIN dims THEN dims[f] ELSE base[f]]

\* the object add_object builds (lines 655-680)
NewObject(type, id, params) ==
    LET base == [id |-> id,
                 name |-> params.name,
                 position |-> OrElse(params, "position", defaultPos),
                 scale |-> OrElse(params, "scale", defaultScale),
                 color |-> OrElse(params, "color", defaultColor)]
        dims ==
          CASE type = "box" ->
                 [type |-> "box", width |-> OrElse(params, "width", 100),
                  height |-> OrElse(params, "height", 100),
                  depth |-> OrElse(params, "depth", 100)]
            [] type = "sphere" ->
                 [type |-> "sphere", radius |-> OrElse(params, "radius", 50)]
            [] type = "cylinder" ->
                 [type |-> "cylinder", radius |-> OrElse(params, "radius", 25),
                  height |-> OrElse(params, "height", 100)]
            [] type = "cone" ->
                 [type |-> "cone", radius |-> OrElse(params, "radius", 25),
                  height |-> OrElse(params, "height", 100)]
            [] type = "plane" ->
                 [type |-> "plane", width |-> OrElse(params, "width", 200),
                  depth |-> OrElse(params, "depth", 200)]
    IN  [f \in DOMAIN base \cup DOMAIN dims |->
            IF f \in DOMAIN dims THEN dims[f] ELSE base[f]]

\* mutant: the identifier is derived from the number of objects
nextIdByCount ==
    [id |-> ObjId(Whole(Cardinality(DOMAIN sceneState.objects) + 1)),
     counter |-> idCounter + Whole(1)]

\* nextId(): the identifier returned and the counter afterwards
nextId == [id |-> ObjId(idCounter), counter |-> idCounter + Whole(1)]

add_object(type, params) ==
    /\ Serving
    /\ IF ColorRejected(params)
       THEN Fails("InvalidColor")
       ELSE
         LET n == nextId
             obj == NewObject(type, n.id, params)
             st == [sceneState EXCEPT !.objects = Put(sceneState.objects, n.id, obj)]
         IN  /\ MayCommit
             /\ idCounter' = n.counter
             /\ sceneState' = st
             /\ commitState(st, n.counter)
             /\ reply' = [error |-> "none", id |-> n.id]
             /\ issued' = issued \cup {n.id}
             /\ UNCHANGED <<pc, env, heap>>

CommonFields == {"name", "position", "scale", "color"}
DimensionFields == {"width", "height", "depth", "radius"}

\* mutant: a dimension is written whether or not the kind declares it
UpdatedObjectAnyDimension(obj, params) ==
    [f \in DOMAIN obj \cup ((CommonFields \cup DimensionFields) \cap DOMAIN params) |->
        IF Has(params, f) THEN params[f] ELSE obj[f]]

\* nextObj of update_object (lines 710-722)
UpdatedObject(obj, params) ==
    LET spread == [f \in DOMAIN obj \cup (CommonFields \cap DOMAIN params) |->
                      IF f \in CommonFields /\ Has(params, f)
                      THEN params[f] ELSE obj[f]]
    IN  [f \in DOMAIN spread |->
            IF f \in DimensionFields /\ Has(params, f)
            THEN params[f] ELSE spread[f]]

update_object(id, params) ==
    /\ Serving
    /\ IF ~ObjectPresent(id)
       THEN Fails("NotFound")
       ELSE IF ColorRejected(params)
       THEN Fails("InvalidColor")
       ELSE
         LET nextObj == UpdatedObject(sceneState.objects[id], params)
             st == [sceneState EXCEPT !.objects = Put(sceneState.objects, id, nextObj)]
         IN  /\ MayCommit
             /\ sceneState' = st
             /\ commitState(st, idCounter)
             /\ reply' = [error |-> "none", id |-> id]
             /\ UNCHANGED <<pc, env, heap, idCounter, issued>>

\* mutant: the filter forgets the connections that point to the object
WithoutConnectionsFrom(conns, id) ==
    LET keep(c) == c.from_id # id
    IN  SelectSeq(conns, keep)

\* connections.filter((c) => c.from_id !== id && c.to_id !== id)
WithoutConnectionsOf(conns, id) ==
    LET keep(c) == c.from_id # id /\ c.to_id # id
    IN  SelectSeq(conns, keep)

delete_object(id) ==
    /\ Serving
    /\ IF ~ObjectPresent(id)
       THEN Fails("NotFound")
       ELSE
         LET st == [objects |-> Without(sceneState.objects, id),
                    connections |-> WithoutConnectionsOf(sceneState.connections, id)]
         IN  /\ MayCommit
             /\ sceneState' = st
             /\ commitState(st, idCounter)
             /\ reply' = [error |-> "none", text |-> "Deleted object", id |-> id]
             /\ UNCHANGED <<pc, env, heap, idCounter, issued>>

\* mutant: an object is not connected to itself
connectRefusesItself(from_id, face_a, to_id, face_b) ==
    /\ Serving
    /\ IF ~ObjectPresent(from_id) \/ ~ObjectPresent(to_id) \/ from_id = to_id
       THEN Fails("NotFound")
       ELSE
         LET fromObj == sceneState.objects[from_id]
             toObj == sceneState.objects[to_id]
             newPos == computeConnectPos(fromObj, face_a, toObj, face_b)
             moved == [f \in DOMAIN fromObj \cup {"position"} |->
                          IF f = "position" THEN newPos ELSE fromObj[f]]
             st == [objects |-> Put(sceneState.objects, from_id, moved),
                    connections |-> Append(sceneState.connections,
                        [from_id |-> from_id, face_a |-> face_a,
                         to_id |-> to_id, face_b |-> face_b])]
         IN  /\ MayCommit
             /\ sceneState' = st
             /\ commitState(st, idCounter)
             /\ reply' = [error |-> "none",
                          from_id |-> from_id, new_position |-> newPos]
             /\ UNCHANGED <<pc, env, heap, idCounter, issued>>

\* mutant: the list keeps only the newest connection
connectKeepsNewest(from_id, face_a, to_id, face_b) ==
    /\ Serving
    /\ IF ~ObjectPresent(from_id) \/ ~ObjectPresent(to_id)
       THEN Fails("NotFound")
       ELSE
         LET fromObj == sceneState.objects[from_id]
             toObj == sceneState.objects[to_id]
             newPos == computeConnectPos(fromObj, face_a, toObj, face_b)
             moved == [f \in DOMAIN fromObj \cup {"position"} |->
                          IF f = "position" THEN newPos ELSE fromObj[f]]
             st == [objects |-> Put(sceneState.objects, from_id, moved),
                    connections |-> << [from_id |-> from_id, face_a |-> face_a,
                                        to_id |-> to_id, face_b |-> face_b] >>]
         IN  /\ MayCommit
             /\ sceneState' = st
             /\ commitState(st, idCounter)
             /\ reply' = [error |-> "none",
                          from_id |-> from_id, new_position |-> newPos]
             /\ UNCHANGED <<pc, env, heap, idCounter, issued>>

connect(from_id, face_a, to_id, face_b) ==
    /\ Serving
    /\ IF ~ObjectPresent(from_id) \/ ~ObjectPresent(to_id)
       THEN Fails("NotFound")
       ELSE
         LET fromObj == sceneState.objects[from_id]
             toObj == sceneState.objects[to_id]
             newPos == computeConnectPos(fromObj, face_a, toObj, face_b)
             moved == [f \in DOMAIN fromObj \cup {"position"} |->
                          IF f = "position" THEN newPos ELSE fromObj[f]]
             st == [objects |-> Put(sceneState.objects, from_id, moved),
                    connections |-> Append(sceneState.connections,
                        [from_id |-> from_id, face_a |-> face_a,
                         to_id |-> to_id, face_b |-> face_b])]
         IN  /\ MayCommit
             /\ sceneState' = st
             /\ commitState(st, idCounter)
             /\ reply' = [error |-> "none",
                          from_id |-> from_id, new_position |-> newPos]
             /\ UNCHANGED <<pc, env, heap, idCounter, issued>>

\* mutant: the version starts again with the graph
clear_sceneResetsVersion ==
    /\ Serving
    /\ MayCommit
    /\ LET st == [objects |-> EmptyMap, connections |-> <<>>] IN
         /\ sceneState' = st
         /\ idCounter' = Whole(1)
         /\ sceneVersion' = 0
         /\ persistState(st, Whole(1), 0)
    /\ reply' = [error |-> "none", text |-> "Scene cleared"]
    /\ issued' = {}
    /\ UNCHANGED <<pc, env, heap>>

\* mutant: the counter is not reset
clear_sceneKeepsCounter ==
    /\ Serving
    /\ MayCommit
    /\ LET st == [objects |-> EmptyMap, connections |-> <<>>] IN
         /\ sceneState' = st
         /\ commitState(st, idCounter)
    /\ reply' = [error |-> "none", text |-> "Scene cleared"]
    /\ issued' = {}
    /\ UNCHANGED <<pc, env, heap, idCounter>>

clear_scene ==
    /\ Serving
    /\ MayCommit
    /\ LET st == [objects |-> EmptyMap, connections |-> <<>>] IN
         /\ sceneState' = st
         /\ idCounter' = Whole(1)
         /\ commitState(st, Whole(1))
    /\ reply' = [error |-> "none", text |-> "Scene cleared"]
    /\ issued' = {}
    /\ UNCHANGED <<pc, env, heap>>

----------------------------------------------------------------------------
(* execute_code.  A script is arbitrary JavaScript; the model runs a menu  *)
(* of scripts, each given by its effect on the `scene` binding of the vm   *)
(* context.  A JavaScript value is tagged with its type.                   *)

JUndefined == [t |-> "undefined"]
JNull == [t |-> "null"]
JMap(m) == [t |-> "map", v |-> m]
JArray(a) == [t |-> "array", v |-> a]
JScene(objects, connections) == [t |-> "obj", objects |-> objects, connections |-> connections]

Nullish(v) == v.t \in {"undefined", "null"}

White == <<"#", "f", "f", "f", "f", "f", "f">>

ScriptSphere(id) ==
    [type |-> "sphere", id |-> id, name |-> "scripted", position |-> Vec(0, 0, 0),
     scale |-> Vec(1, 1, 1), color |-> White, radius |-> 50]

GhostConnection ==
    [from_id |-> "ghost", face_a |-> "top", to_id |-> "obj_1", face_b |-> "bottom"]

Scripts == {"throw", "spin", "delete_obj_1", "plant", "connections_string"}

\* the outcome of vm.runInContext(code, ctx, { timeout: 1000 }) and the value
\* of `scene` in the context afterwards; st is the structuredClone of sceneState
RunScript(script, st) ==
    LET same == JScene(JMap(st.objects), JArray(st.connections))
        done(sc) == [outcome |-> "done", scene |-> sc]
    IN
    CASE script = "throw" -> [outcome |-> "throws", scene |-> same]
      [] script = "spin" -> [outcome |-> "timeout", scene |-> same]
      \* delete scene.objects.obj_1
      [] script = "delete_obj_1" ->
           done(JScene(JMap(Without(st.objects, "obj_1")), JArray(st.connections)))
      \* scene.objects.obj_2 = { id: "obj_1", ... };
      \* scene.connections.push({ from_id: "ghost", ... })
      [] script = "plant" ->
           done(JScene(JMap(Put(st.objects, "obj_2", ScriptSphere("obj_1"))),
                       JArray(Append(st.connections, GhostConnection))))
      \* scene.connections = "none"
      [] script = "connections_string" ->
           done(JScene(JMap(st.objects), [t |-> "string", v |-> "none"]))

\* JSON.parse of the JSON.stringify({ objects: scene?.objects ?? {},
\* connections: scene?.connections ?? [] }) evaluated in the context
Snapshot(scene) ==
    LET objects == IF Nullish(scene) THEN JUndefined ELSE scene.objects
        connections == IF Nullish(scene) THEN JUndefined ELSE scene.connections
    IN  [objects |-> IF Nullish(objects) THEN JMap(EmptyMap) ELSE objects,
         connections |-> IF Nullish(connections) THEN JArray(<<>>) ELSE connections]

\* mutant: the snapshot is laid over the old graph instead of replacing it
MergedOntoOld(snapshot) ==
    [objects |-> IF Nullish(snapshot.objects) THEN sceneState.objects
                 ELSE snapshot.objects.v @@ sceneState.objects,
     connections |-> IF snapshot.connections.t = "array"
                     THEN snapshot.connections.v ELSE <<>>]

\* the scene state assigned from the snapshot (lines 851-854)
Merged(snapshot) ==
    [objects |-> IF Nullish(snapshot.objects) THEN EmptyMap ELSE snapshot.objects.v,
     connections |-> IF snapshot.connections.t = "array"
                     THEN snapshot.connections.v ELSE <<>>]

execute_code(script) ==
    /\ Serving
    /\ LET run == RunScript(script, sceneState) IN
         IF run.outcome # "done"
         THEN Fails("SandboxExecutionError")
         ELSE
           LET st == Merged(Snapshot(run.scene)) IN
             /\ MayCommit
             /\ sceneState' = st
             /\ commitState(st, idCounter)
             /\ reply' = [error |-> "none", result |-> "Code executed successfully",
                          object_count |-> Cardinality(DOMAIN st.objects),
                          connection_count |-> Len(st.connections)]
             /\ UNCHANGED <<pc, env, heap, idCounter, issued>>

----------------------------------------------------------------------------
(* Requests the callers make *)

Red == <<"#", "c", "c", "0", "0", "0", "0">>
Blue == <<"#", "0", "0", "0", "0", "c", "c">>
ColorWord == <<"r", "e", "d">>
ColorShort == <<"#", "f", "f", "f">>
ColorNotHex == <<"#", "g", "g", "0", "0", "0", "0">>
ColorLong == <<"#", "c", "c", "0", "0", "0", "0", "0">>
EmptyString == <<>>

AddRequests ==
    { [type |-> "box",
       params |-> [name |-> "base", width |-> 200, height |-> 20, depth |-> 100, color |-> Red]],
      [type |-> "cylinder",
       params |-> [name |-> "post", radius |-> 10, height |-> 100, color |-> White]],
      [type |-> "plane",
       params |-> [name |-> "floor", radius |-> 7, width |-> -6, scale |-> Vec(1, 0, 1),
                   color |-> EmptyString]],
      [type |-> "box", params |-> [name |-> "word", color |-> ColorWord, width |-> 40]],
      [type |-> "sphere", params |-> [name |-> "long", color |-> ColorLong]] }

UpdateParams ==
    { [color |-> Blue],
      [name |-> "renamed", position |-> Vec(4, 6, 8), scale |-> Vec(2, 1, 1), radius |-> 30],
      [name |-> "other", color |-> ColorNotHex],
      [color |-> ColorShort, height |-> 12] }

\* identifiers the callers name: every object present and the first
\* identifier, which is absent before the first add and after its deletion
TargetIds == DOMAIN sceneState.objects \cup {"obj_1"}

FacePairs == { <<"bottom", "top">> }

----------------------------------------------------------------------------
(* The persisted file found at startup *)

StoredBox(id) ==
    [type |-> "box", id |-> id, name |-> "base", position |-> Vec(0, 0, 0),
     scale |-> Vec(1, 1, 1), color |-> Red, width |-> 200, height |-> 20, depth |-> 100]

StoredScene ==
    [objects |-> ("obj_1" :> StoredBox("obj_1")), connections |-> <<>>]

OlderScene ==
    [objects |-> ("obj_3" :> StoredBox("obj_3")), connections |-> <<>>]

DiskFiles ==
    { NoFile,
      Garbage,
      \* a record this program wrote
      Serialize(StoredScene, Whole(2), 1),
      \* a record of an older format: no counter, no version
      JsonFile([sceneState |-> OlderScene]),
      \* a record edited by hand: the counter lowered
      JsonFile([sceneState |-> StoredScene, idCounter |-> JNum(Whole(1)),
                sceneVersion |-> JNum(Whole(3))]),
      \* a record without the connections list
      JsonFile([sceneState |-> [objects |-> ("obj_1" :> StoredBox("obj_1"))],
                idCounter |-> JNum(Whole(7)), sceneVersion |-> JNum(Whole(4))]) }

----------------------------------------------------------------------------
(* The specification *)

Init ==
    /\ pc = "boot"
    /\ env = [ENABLE_EXECUTE_CODE |-> "unset"]
    /\ sceneState = [objects |-> EmptyMap, connections |-> <<>>]
    /\ idCounter = Whole(1)
    /\ sceneVersion = 0
    /\ disk \in DiskFiles
    /\ persistCalls = 0
    /\ lastWrite = "none"
    /\ reply = NoReply
    /\ issued = {}
    /\ calls = <<>>
    /\ heap = FirstHeap

AddObject == \E r \in AddRequests : add_object(r.type, r.params)
UpdateObject == \E id \in TargetIds : \E p \in UpdateParams : update_object(id, p)
DeleteObject == \E id \in TargetIds : delete_object(id)
Connect ==
    \E a \in TargetIds : \E b \in TargetIds : \E f \in FacePairs :
        connect(a, f[1], b, f[2])
ExecuteCode == \E script \in Scripts : execute_code(script)

Next ==
    \/ loadPersistedState
    \/ get_scene_state
    \/ AddObject
    \/ UpdateObject
    \/ DeleteObject
    \/ Connect
    \/ clear_scene
    \/ ExecuteCode

Spec == Init /\ [][Next]_vars

----------------------------------------------------------------------------
(* Specification for add_object alone: one request out of every kind with  *)
(* no optional field, with each optional field alone and with all of them, *)
(* on the empty graph of a first start.                                    *)

\* how many objects a run of DefaultsSpec and of LoadSpec may add
MaxAdds == 1

Types == {"box", "sphere", "cylinder", "cone", "plane"}
OptionalFields == {"position", "scale", "color", "width", "height", "depth", "radius"}

\* the value a request gives to an optional field; none is the default
GivenValue(f) ==
    CASE f = "position" -> Vec(2, 4, 6)
      [] f = "scale"    -> Vec(2, 3, 4)
      [] f = "color"    -> Blue
      [] f = "width"    -> 40
      [] f = "height"   -> 60
      [] f = "depth"    -> 80
      [] f = "radius"   -> 30

FieldChoices ==
    {S \in SUBSET OptionalFields : Cardinality(S) = 0 \/ Cardinality(S) = 1 \/ S = OptionalFields}

DefaultRequests ==
    { [type |-> t,
       params |-> [f \in S \cup {"name"} |-> IF f = "name" THEN "thing" ELSE GivenValue(f)]] :
      t \in Types, S \in FieldChoices }

InitDefaults == Init /\ disk = NoFile

AddWithDefaults ==
    /\ persistCalls < MaxAdds
    /\ \E r \in DefaultRequests : add_object(r.type, r.params)

NextDefaults ==
    \/ loadPersistedState
    \/ get_scene_state
    \/ AddWithDefaults

DefaultsSpec == InitDefaults /\ [][NextDefaults]_vars

----------------------------------------------------------------------------

(* Specification for startup: the file found at startup is any combination *)
(* of a sceneState field, an idCounter field and a sceneVersion field (or  *)
(* no file, or an unparsable one); after the load the callers read the     *)
(* scene and add objects.                                                  *)

Absent == [t |-> "absent"]

\* graphs a record may hold; the keys are identifiers with suffix 1, 3, 2.5
\* and 0.5, and one identifier without a number
SceneWith(id) == [objects |-> (id :> StoredBox(id)), connections |-> <<>>]
FractionalScene == SceneWith(ObjId(5))
TinyScene == SceneWith(ObjId(1))
LampScene == SceneWith("lamp")
EmptyScene == [objects |-> EmptyMap, connections |-> <<>>]

SceneFields ==
    { Absent, EmptyScene, StoredScene, OlderScene, FractionalScene, TinyScene, LampScene,
      \* records that lack the connections list, the objects map
      [objects |-> ("obj_1" :> StoredBox("obj_1"))],
      [connections |-> <<>>] }

\* absent, "7", 0, 0.5, 1, 2.5, 7
CounterFields ==
    { Absent, JStr("7"), JNum(Whole(0)), JNum(1), JNum(Whole(1)), JNum(5), JNum(Whole(7)) }

\* absent, "4", -1, 0, 1.5, 4
VersionFields ==
    { Absent, JStr("4"), JNum(Whole(-1)), JNum(Whole(0)), JNum(3), JNum(Whole(4)) }

RecordOf(s, c, v) ==
    LET value(n) == CASE n = "sceneState" -> s
                      [] n = "idCounter" -> c
                      [] n = "sceneVersion" -> v
        present == {n \in {"sceneState", "idCounter", "sceneVersion"} : value(n) # Absent}
    IN  JsonFile([n \in present |-> value(n)])

LoadFiles ==
    {NoFile, Garbage}
      \cup {RecordOf(s, c, v) : s \in SceneFields, c \in CounterFields, v \in VersionFields}

InitLoad ==
    /\ pc = "boot"
    /\ env = [ENABLE_EXECUTE_CODE |-> "unset"]
    /\ sceneState = [objects |-> EmptyMap, connections |-> <<>>]
    /\ idCounter = Whole(1)
    /\ sceneVersion = 0
    /\ disk \in LoadFiles
    /\ persistCalls = 0
    /\ lastWrite = "none"
    /\ reply = NoReply
    /\ issued = {}
    /\ calls = <<>>
    /\ heap = FirstHeap

AddAfterLoad ==
    /\ persistCalls < MaxAdds
    /\ AddObject

NextLoad ==
    \/ loadPersistedState
    \/ get_scene_state
    \/ AddAfterLoad

LoadSpec == InitLoad /\ [][NextLoad]_vars

----------------------------------------------------------------------------

(* The interleaved specification.  The server is one Node.js process: a    *)
(* handler runs without interruption up to its first await, and other      *)
(* handlers run while it is suspended.  The only awaits of a mutating      *)
(* handler are the two of persistState(), reached through                  *)
(* `await commitState()`:                                                  *)
(*   - up to `await fs.mkdir`: validation, the assignment of sceneState    *)
(*     and idCounter, `sceneVersion += 1`;                                 *)
(*   - after fs.mkdir has settled: JSON.stringify of the variables as they *)
(*     are then, and the call of fs.writeFile;                             *)
(*   - after fs.writeFile has settled: persistState and commitState        *)
(*     return and the handler returns its result.                          *)
(* fs.writeFile calls that overlap on the one path are not ordered: either *)
(* may land last, and the bytes of the two may mix.                        *)

\* how many tool calls one interleaved run dispatches
MaxCalls == 2

MayCall == Len(calls) < MaxCalls

\* an entry of `calls`: the handler is suspended at `await fs.mkdir` and will
\* return `result`
Started(op, result) ==
    [op |-> op, at |-> "mkdir", result |-> result, data |-> NoFile, write |-> "none"]

\* an entry of `calls`: the handler has returned an error at once
Refused(op, e) ==
    [op |-> op, at |-> "returned", result |-> Err(e), data |-> NoFile, write |-> "none"]

Suspended(i, at) == i \in 1..Len(calls) /\ calls[i].at = at

\* a handler that returns an error before it has changed anything
FailsAtOnce(op, e) ==
    /\ reply' = Err(e)
    /\ calls' = Append(calls, Refused(op, e))
    /\ UNCHANGED <<pc, env, heap, sceneState, idCounter, sceneVersion, disk,
                   persistCalls, lastWrite, issued>>

\* mutant: the version is not raised before the handler suspends
commitStateToAwaitLateVersion(op, result) ==
    /\ persistCalls' = persistCalls + 1
    /\ calls' = Append(calls, Started(op, result))
    /\ UNCHANGED <<sceneVersion, disk, lastWrite, reply>>

\* commitState up to the first await: the version is raised, persistState()
\* is called and suspends at `await fs.mkdir`
commitStateToAwait(op, result) ==
    /\ sceneVersion' = sceneVersion + 1
    /\ persistCalls' = persistCalls + 1
    /\ calls' = Append(calls, Started(op, result))
    /\ UNCHANGED <<disk, lastWrite, reply>>

add_objectToAwait(type, params) ==
    LET op == [tool |-> "add_object", type |-> type, params |-> params] IN
    /\ Serving
    /\ MayCall
    /\ IF ColorRejected(params)
       THEN FailsAtOnce(op, "InvalidColor")
       ELSE
         LET n == nextId
             obj == NewObject(type, n.id, params)
         IN  /\ idCounter' = n.counter
             /\ sceneState' = [sceneState EXCEPT !.objects = Put(sceneState.objects, n.id, obj)]
             /\ commitStateToAwait(op, [error |-> "none", id |-> n.id])
             /\ issued' = issued \cup {n.id}
             /\ UNCHANGED <<pc, env, heap>>

update_objectToAwait(id, params) ==
    LET op == [tool |-> "update_object", id |-> id, params |-> params] IN
    /\ Serving
    /\ MayCall
    /\ IF ~ObjectPresent(id)
       THEN FailsAtOnce(op, "NotFound")
       ELSE IF ColorRejected(params)
       THEN FailsAtOnce(op, "InvalidColor")
       ELSE
         LET nextObj == UpdatedObject(sceneState.objects[id], params)
         IN  /\ sceneState' = [sceneState EXCEPT !.objects = Put(sceneState.objects, id, nextObj)]
             /\ commitStateToAwait(op, [error |-> "none", id |-> id])
             /\ UNCHANGED <<pc, env, heap, idCounter, issued>>

delete_objectToAwait(id) ==
    LET op == [tool |-> "delete_object", id |-> id] IN
    /\ Serving
    /\ MayCall
    /\ IF ~ObjectPresent(id)
       THEN FailsAtOnce(op, "NotFound")
       ELSE
         /\ sceneState' = [objects |-> Without(sceneState.objects, id),
                           connections |-> WithoutConnectionsOf(sceneState.connections, id)]
         /\ commitStateToAwait(op, [error |-> "none", text |-> "Deleted object", id |-> id])
         /\ UNCHANGED <<pc, env, heap, idCounter, issued>>

connectToAwait(from_id, face_a, to_id, face_b) ==
    LET op == [tool |-> "connect", from_id |-> from_id, face_a |-> face_a,
               to_id |-> to_id, face_b |-> face_b] IN
    /\ Serving
    /\ MayCall
    /\ IF ~ObjectPresent(from_id) \/ ~ObjectPresent(to_id)
       THEN FailsAtOnce(op, "NotFound")
       ELSE
         LET fromObj == sceneState.objects[from_id]
             toObj == sceneState.objects[to_id]
             newPos == computeConnectPos(fromObj, face_a, toObj, face_b)
             moved == [f \in DOMAIN fromObj \cup {"position"} |->
                          IF f = "position" THEN newPos ELSE fromObj[f]]
         IN  /\ sceneState' =
                   [objects |-> Put(sceneState.objects, from_id, moved),
                    connections |-> Append(sceneState.connections,
                        [from_id |-> from_id, face_a |-> face_a,
                         to_id |-> to_id, face_b |-> face_b])]
             /\ commitStateToAwait(op, [error |-> "none",
                                        from_id |-> from_id, new_position |-> newPos])
             /\ UNCHANGED <<pc, env, heap, idCounter, issued>>

clear_sceneToAwait ==
    /\ Serving
    /\ MayCall
    /\ sceneState' = [objects |-> EmptyMap, connections |-> <<>>]
    /\ idCounter' = Whole(1)
    /\ commitStateToAwait([tool |-> "clear_scene"], [error |-> "none", text |-> "Scene cleared"])
    /\ issued' = {}
    /\ UNCHANGED <<pc, env, heap>>

\* mutant: the record pairs the graph and the counter as they are now with
\* the version that the call's own commit made
persistStateAfterMkdirOwnVersion(i) ==
    /\ Suspended(i, "mkdir")
    /\ \/ /\ calls' = [calls EXCEPT ![i].at = "write",
                                    ![i].data = Serialize(sceneState, idCounter,
                                        sceneVersion - Cardinality({j \in (i + 1)..Len(calls) :
                                                          calls[j].result.error = "none"}))]
          /\ UNCHANGED <<lastWrite, reply>>
       \/ /\ calls' = [calls EXCEPT ![i].at = "returned", ![i].write = "failed"]
          /\ lastWrite' = "failed"
          /\ reply' = calls[i].result
    /\ UNCHANGED <<pc, env, heap, sceneState, idCounter, sceneVersion, disk, persistCalls, issued>>

\* persistState of call i resumes after fs.mkdir: either the directory is
\* there, the record is built from the variables as they are now and handed
\* to fs.writeFile, or fs.mkdir has failed, the failure is caught and logged
\* and the handler returns its result
persistStateAfterMkdir(i) ==
    /\ Suspended(i, "mkdir")
    /\ \/ /\ calls' = [calls EXCEPT ![i].at = "write",
                                    ![i].data = Serialize(sceneState, idCounter, sceneVersion)]
          /\ UNCHANGED <<lastWrite, reply>>
       \/ /\ calls' = [calls EXCEPT ![i].at = "returned", ![i].write = "failed"]
          /\ lastWrite' = "failed"
          /\ reply' = calls[i].result
    /\ UNCHANGED <<pc, env, heap, sceneState, idCounter, sceneVersion, disk, persistCalls, issued>>

\* what the file can hold once the write of call i has landed: its record,
\* or a mix with the bytes of another write that is under way
Landings(i) ==
    {calls[i].data} \cup
    (IF \E j \in 1..Len(calls) : j # i /\ calls[j].at = "write" THEN {Garbage} ELSE {})

\* persistState of call i resumes after fs.writeFile: the write has landed
\* or failed (caught and logged); persistState and commitState return and
\* the handler returns its result
persistStateAfterWrite(i) ==
    /\ Suspended(i, "write")
    /\ \/ /\ disk' \in Landings(i)
          /\ lastWrite' = "ok"
          /\ calls' = [calls EXCEPT ![i].at = "returned", ![i].write = "ok"]
       \/ /\ disk' = disk
          /\ lastWrite' = "failed"
          /\ calls' = [calls EXCEPT ![i].at = "returned", ![i].write = "failed"]
    /\ reply' = calls[i].result
    /\ UNCHANGED <<pc, env, heap, sceneState, idCounter, sceneVersion, persistCalls, issued>>

\* the record found at startup: two boxes, the second set on the first
TwoBoxes ==
    [objects |-> ("obj_1" :> StoredBox("obj_1")) @@
                 ("obj_2" :> [StoredBox("obj_2") EXCEPT !.position = Vec(0, 20, 0)]),
     connections |-> << [from_id |-> "obj_2", face_a |-> "bottom",
                         to_id |-> "obj_1", face_b |-> "top"] >>]

InitInterleaved ==
    /\ pc = "boot"
    /\ env = [ENABLE_EXECUTE_CODE |-> "unset"]
    /\ sceneState = [objects |-> EmptyMap, connections |-> <<>>]
    /\ idCounter = Whole(1)
    /\ sceneVersion = 0
    /\ disk = Serialize(TwoBoxes, Whole(3), 2)
    /\ persistCalls = 0
    /\ lastWrite = "none"
    /\ reply = NoReply
    /\ issued = {}
    /\ calls = <<>>
    /\ heap = FirstHeap

AddObjectCall ==
    add_objectToAwait("cylinder", [name |-> "post", radius |-> 10, height |-> 100, color |-> White])
UpdateObjectCall ==
    \E p \in {[color |-> Blue], [color |-> ColorShort, height |-> 12]} :
        update_objectToAwait("obj_1", p)
DeleteObjectCall == delete_objectToAwait("obj_1")
ConnectCall == connectToAwait("obj_2", "bottom", "obj_1", "top")
AfterMkdir == \E i \in 1..Len(calls) : persistStateAfterMkdir(i)
AfterWrite == \E i \in 1..Len(calls) : persistStateAfterWrite(i)

NextInterleaved ==
    \/ loadPersistedState
    \/ get_scene_state
    \/ AddObjectCall
    \/ UpdateObjectCall
    \/ DeleteObjectCall
    \/ ConnectCall
    \/ clear_sceneToAwait
    \/ AfterMkdir
    \/ AfterWrite

InterleavedSpec == InitInterleaved /\ [][NextInterleaved]_vars

----------------------------------------------------------------------------

(* The interleaved specification with the scheduling of the event loop: a  *)
(* continuation whose fs.mkdir has settled is run.  Nothing is assumed of  *)
(* fs.writeFile: the disk may be slow, or never settle.                    *)
InterleavedFairSpec ==
    /\ InterleavedSpec
    /\ \A i \in 1..MaxCalls : WF_vars(persistStateAfterMkdir(i))

----------------------------------------------------------------------------

(* Specification for the geometry: the record found at startup holds one   *)
(* box; a second object of any kind is added, with its defaults or with    *)
(* every optional field given; objects are rescaled and resized; then one  *)
(* object is connected to the other, any face onto any face.               *)

\* how many update_object calls a run of GeometrySpec makes
MaxResizes == 1

GeometryRequests ==
    {r \in DefaultRequests : DOMAIN r.params = {"name"} \/ DOMAIN r.params = OptionalFields \cup {"name"}}

ResizeParams ==
    { [scale |-> Vec(3, 1, 2)],
      [height |-> 12, radius |-> 8],
      [width |-> 60, depth |-> 20] }

InitGeometry ==
    /\ pc = "boot"
    /\ env = [ENABLE_EXECUTE_CODE |-> "unset"]
    /\ sceneState = [objects |-> EmptyMap, connections |-> <<>>]
    /\ idCounter = Whole(1)
    /\ sceneVersion = 0
    /\ disk = Serialize(StoredScene, Whole(2), 1)
    /\ persistCalls = 0
    /\ lastWrite = "none"
    /\ reply = NoReply
    /\ issued = {}
    /\ calls = <<>>
    /\ heap = FirstHeap

AddSecondObject ==
    /\ DOMAIN sceneState.objects = {"obj_1"}
    /\ sceneState.connections = <<>>
    /\ \E r \in GeometryRequests : add_object(r.type, r.params)

ResizeObject ==
    /\ sceneState.connections = <<>>
    /\ persistCalls < MaxResizes + Cardinality(DOMAIN sceneState.objects) - 1
    /\ \E id \in DOMAIN sceneState.objects : \E p \in ResizeParams : update_object(id, p)

ConnectFaces ==
    /\ sceneState.connections = <<>>
    /\ \E a \in DOMAIN sceneState.objects : \E b \in DOMAIN sceneState.objects \ {a} :
       \E fa \in Faces : \E fb \in Faces : connect(a, fa, b, fb)

NextGeometry ==
    \/ loadPersistedState
    \/ AddSecondObject
    \/ ResizeObject
    \/ ConnectFaces

GeometrySpec == InitGeometry /\ [][NextGeometry]_vars

----------------------------------------------------------------------------

(* Specification for the self-connection: as GeometrySpec, but the one     *)
(* connect call names the same object twice.                               *)

ConnectToItself ==
    /\ sceneState.connections = <<>>
    /\ \E a \in DOMAIN sceneState.objects :
       \E fa \in Faces : \E fb \in Faces : connect(a, fa, a, fb)

NextSelfConnect ==
    \/ loadPersistedState
    \/ AddSecondObject
    \/ ResizeObject
    \/ ConnectToItself

SelfConnectSpec == InitGeometry /\ [][NextSelfConnect]_vars

----------------------------------------------------------------------------

(* Specification by reference.  The handlers are followed object by        *)
(* object: a spread `{ ...x }`, a rest pattern, filter and an array or     *)
(* object literal make a new object, everything else passes the reference  *)
(* it has.  What get_scene_state returns goes to widget() and object() of  *)
(* the server library; whoever holds it may write through it.  The server  *)
(* starts without a file.                                                   *)

\* the heap with a new scene object, a new map as sceneState.objects, a new
\* list as sceneState.connections; the new reference is h.next
WithObj(h, o) == [h EXCEPT !.objs = Put(@, h.next, o), !.next = @ + 1]
WithMap(h, m) == [h EXCEPT !.maps = Put(@, h.next, m), !.objectsAt = h.next, !.next = @ + 1]
WithList(h, l) ==
    [h EXCEPT !.lists = Put(@, h.next, l), !.connectionsAt = h.next, !.next = @ + 1]

\* the map and the list sceneState refers to
TheMap == heap.maps[heap.objectsAt]
TheList == heap.lists[heap.connectionsAt]

\* a handler has assigned sceneState (and the counter) so that the heap is
\* h, and commits
AssignedAndCommitted(h, counter) ==
    /\ MayCommit
    /\ heap' = h
    /\ sceneState' = Deref(h)
    /\ idCounter' = counter
    /\ commitState(Deref(h), counter)
    /\ UNCHANGED <<pc, env>>

\* { ...sceneState, version }: the new object holds the references of
\* sceneState.objects and sceneState.connections themselves
get_scene_stateByReference ==
    /\ Serving
    /\ reply' = [error |-> "none",
                 objects |-> sceneState.objects,
                 connections |-> sceneState.connections,
                 version |-> sceneVersion]
    /\ heap' = [heap EXCEPT !.handed = @ \cup {heap.objectsAt, heap.connectionsAt}]
    /\ UNCHANGED <<pc, env, sceneState, idCounter, sceneVersion, disk,
                   persistCalls, lastWrite, issued, calls>>

add_objectByReference(type, params) ==
    /\ Serving
    /\ IF ColorRejected(params)
       THEN Fails("InvalidColor")
       ELSE
         LET n == nextId
             h1 == WithObj(heap, NewObject(type, n.id, params))
             h2 == WithMap(h1, Put(TheMap, n.id, heap.next))
         IN  /\ AssignedAndCommitted(h2, n.counter)
             /\ reply' = [error |-> "none", id |-> n.id]
             /\ issued' = issued \cup {n.id}

update_objectByReference(id, params) ==
    /\ Serving
    /\ IF ~ObjectPresent(id)
       THEN Fails("NotFound")
       ELSE IF ColorRejected(params)
       THEN Fails("InvalidColor")
       ELSE
         LET h1 == WithObj(heap, UpdatedObject(heap.objs[TheMap[id]], params))
             h2 == WithMap(h1, Put(TheMap, id, heap.next))
         IN  /\ AssignedAndCommitted(h2, idCounter)
             /\ reply' = [error |-> "none", id |-> id]
             /\ UNCHANGED issued

delete_objectByReference(id) ==
    /\ Serving
    /\ IF ~ObjectPresent(id)
       THEN Fails("NotFound")
       ELSE
         LET h1 == WithMap(heap, Without(TheMap, id))
             h2 == WithList(h1, WithoutConnectionsOf(TheList, id))
         IN  /\ AssignedAndCommitted(h2, idCounter)
             /\ reply' = [error |-> "none", text |-> "Deleted object", id |-> id]
             /\ UNCHANGED issued

connectByReference(from_id, face_a, to_id, face_b) ==
    /\ Serving
    /\ IF ~ObjectPresent(from_id) \/ ~ObjectPresent(to_id)
       THEN Fails("NotFound")
       ELSE
         LET fromObj == heap.objs[TheMap[from_id]]
             toObj == heap.objs[TheMap[to_id]]
             newPos == computeConnectPos(fromObj, face_a, toObj, face_b)
             moved == [f \in DOMAIN fromObj \cup {"position"} |->
                          IF f = "position" THEN newPos ELSE fromObj[f]]
             h1 == WithObj(heap, moved)
             h2 == WithMap(h1, Put(TheMap, from_id, heap.next))
             h3 == WithList(h2, Append(TheList,
                       [from_id |-> from_id, face_a |-> face_a,
                        to_id |-> to_id, face_b |-> face_b]))
         IN  /\ AssignedAndCommitted(h3, idCounter)
             /\ reply' = [error |-> "none",
                          from_id |-> from_id, new_position |-> newPos]
             /\ UNCHANGED issued

clear_sceneByReference ==
    /\ Serving
    /\ AssignedAndCommitted(WithList(WithMap(heap, EmptyMap), <<>>), Whole(1))
    /\ reply' = [error |-> "none", text |-> "Scene cleared"]
    /\ issued' = {}

\* the maps that were returned
ReturnedMaps == heap.handed \cap DOMAIN heap.maps

\* the holder of a returned graph writes through it; the memory is what
\* sceneState then refers to
HolderHasWritten(h) ==
    /\ Serving
    /\ heap' = h
    /\ sceneState' = Deref(h)
    /\ UNCHANGED <<pc, env, idCounter, sceneVersion, disk, persistCalls, lastWrite,
                   reply, issued, calls>>

\* returned.objects[id].color = "#ffffff"
HolderRecolors ==
    \E m \in ReturnedMaps : \E id \in DOMAIN heap.maps[m] :
        /\ heap.objs[heap.maps[m][id]].color # White
        /\ HolderHasWritten([heap EXCEPT !.objs[heap.maps[m][id]].color = White])

\* delete returned.objects[id]
HolderDrops ==
    \E m \in ReturnedMaps : \E id \in DOMAIN heap.maps[m] :
        HolderHasWritten([heap EXCEPT !.maps[m] = Without(@, id)])

InitHeap == Init /\ disk = NoFile

AddByReference ==
    add_objectByReference("box",
        [name |-> "base", width |-> 200, height |-> 20, depth |-> 100, color |-> Red])
UpdateByReference == update_objectByReference("obj_1", [color |-> Blue, height |-> 12])
DeleteByReference == delete_objectByReference("obj_1")
ConnectByReference == connectByReference("obj_2", "bottom", "obj_1", "top")

NextHeap ==
    \/ loadPersistedState
    \/ get_scene_stateByReference
    \/ AddByReference
    \/ UpdateByReference
    \/ DeleteByReference
    \/ ConnectByReference
    \/ clear_sceneByReference
    \/ HolderRecolors
    \/ HolderDrops

HeapSpec == InitHeap /\ [][NextHeap]_vars

----------------------------------------------------------------------------

(* Properties *)

Objects == sceneState.objects
Connections == sceneState.connections

\* C1: referential integrity -- in every reachable state the from and to
\* identifiers of every recorded connection are keys of the objects map.
C1_ReferentialIntegrity ==
    \A i \in 1..Len(Connections) :
        /\ Connections[i].from_id \in DOMAIN Objects
        /\ Connections[i].to_id \in DOMAIN Objects

\* the j-th connection, in order, among those that do not reference id
KeptIndices(conns, id) ==
    {i \in 1..Len(conns) : conns[i].from_id # id /\ conns[i].to_id # id}
NthKept(conns, id, j) ==
    CHOOSE i \in KeptIndices(conns, id) :
        Cardinality({m \in KeptIndices(conns, id) : m <= i}) = j

\* C2: delete_object(id) on a present id removes that object and exactly the
\* connections whose from or to is id, in one step, and leaves every other
\* object and the remaining connections, in their order, unchanged; on an
\* absent id (as after the first delete) it fails with NotFound.
C2_DeleteCascades ==
    [][\A id \in TargetIds \cup DOMAIN sceneState'.objects :
         delete_object(id) =>
           IF id \in DOMAIN Objects
           THEN /\ reply'.error = "none"
                /\ DOMAIN sceneState'.objects = DOMAIN Objects \ {id}
                /\ \A k \in DOMAIN sceneState'.objects :
                       sceneState'.objects[k] = Objects[k]
                /\ Len(sceneState'.connections) = Cardinality(KeptIndices(Connections, id))
                /\ \A j \in 1..Len(sceneState'.connections) :
                       sceneState'.connections[j] = Connections[NthKept(Connections, id, j)]
                /\ id \notin DOMAIN sceneState'.objects
           ELSE /\ reply'.error = "NotFound"
                /\ sceneState' = sceneState
                /\ sceneVersion' = sceneVersion
      ]_vars

\* the record on disk is the one written by the commit before the last one
DiskIsPreviousCommit ==
    /\ lastWrite = "failed"
    /\ disk.kind = "json"
    /\ Has(disk.fields, "sceneVersion")
    /\ disk.fields.sceneVersion = JNum(Whole(sceneVersion - 1))
    /\ persistCalls >= 2

\* C2 witness: a delete has removed an object and a connection, and has
\* left a connection and an object behind.
C2_Witness ==
    /\ Has(reply, "text") /\ reply.text = "Deleted object"
    /\ DiskIsPreviousCommit
    /\ reply.id \in DOMAIN disk.fields.sceneState.objects
    /\ Len(disk.fields.sceneState.connections) > Len(Connections)
    /\ Len(Connections) >= 1
    /\ DOMAIN Objects # {}

\* a handler has answered with a success that is not the scene itself: the
\* step is a successful add_object, update_object, delete_object, connect,
\* clear_scene or execute_code call
SuccessfulMutation ==
    /\ Serving
    /\ reply'.error = "none"
    /\ ~Has(reply', "version")

\* C3: each successful add_object, update_object, delete_object, connect,
\* clear_scene or execute_code call raises the version by exactly 1 and calls
\* persistState exactly once; get_scene_state changes neither the version nor
\* the file and calls persistState not at all.
C3_OneCommitPerMutation ==
    [][ /\ SuccessfulMutation =>
             /\ sceneVersion' = sceneVersion + 1
             /\ persistCalls' = persistCalls + 1
        /\ get_scene_state =>
             /\ sceneVersion' = sceneVersion
             /\ persistCalls' = persistCalls
             /\ disk' = disk
             /\ sceneState' = sceneState
      ]_vars

\* C3 witness: get_scene_state has answered after two commits.
C3_Witness ==
    /\ Has(reply, "version")
    /\ reply.version = sceneVersion
    /\ persistCalls >= 2

\* the color is supplied, is not the empty string and does not match
\* ^#[0-9a-fA-F]{6}$
Malformed(params) ==
    /\ Has(params, "color")
    /\ params.color # <<>>
    /\ \/ Len(params.color) # 7
       \/ params.color[1] # "#"
       \/ \E i \in 2..Len(params.color) : params.color[i] \notin HexDigits

\* C4: a call that fails with NotFound or InvalidColor leaves the graph, the
\* identifier counter, the version and the file as they were and commits
\* nothing; update, delete and connect on an absent id (connect: either id)
\* fail with NotFound, add and update with a malformed color fail with
\* InvalidColor whatever else the payload holds.
C4_FailedCallChangesNothing ==
    [][ /\ reply'.error \in {"NotFound", "InvalidColor"} =>
             UNCHANGED <<sceneState, idCounter, sceneVersion, persistCalls, disk>>
        /\ \A id \in TargetIds :
             /\ (id \notin DOMAIN Objects /\ delete_object(id)) => reply'.error = "NotFound"
             /\ \A p \in UpdateParams :
                  /\ (id \notin DOMAIN Objects /\ update_object(id, p)) =>
                        reply'.error = "NotFound"
                  /\ (id \in DOMAIN Objects /\ Malformed(p) /\ update_object(id, p)) =>
                        reply'.error = "InvalidColor"
             /\ \A b \in TargetIds : \A f \in FacePairs :
                  ({id, b} \ DOMAIN Objects # {} /\ connect(id, f[1], b, f[2])) =>
                        reply'.error = "NotFound"
        /\ \A r \in AddRequests :
             (Malformed(r.params) /\ add_object(r.type, r.params)) =>
                  reply'.error = "InvalidColor"
      ]_vars

\* C4 witness: a call has failed with NotFound in a graph that holds an object
\* while obj_1 is absent (so a connect can name one present and one absent id).
C4_Witness ==
    /\ reply.error = "NotFound"
    /\ DOMAIN Objects # {}
    /\ "obj_1" \notin DOMAIN Objects
    /\ persistCalls >= 1

\* C5: between two clear_scene calls no add_object returns an identifier that
\* an earlier add_object returned (also when the object was deleted since),
\* and each returned numeric suffix is greater than all earlier ones.
C5_IdentifiersNeverRepeat ==
    [][ \A r \in AddRequests :
          (reply'.error = "none" /\ add_object(r.type, r.params)) =>
             /\ reply'.id \notin issued
             /\ KeyNumber(reply'.id) >= Whole(1)
             /\ \A i \in issued : KeyNumber(i) < KeyNumber(reply'.id)
      ]_vars

\* C5 witness: add, delete, add -- two identifiers were returned, one of them
\* is free again, and the last call returned the other.
C5_Witness ==
    /\ Cardinality(issued) = 2
    /\ \E a \in issued : a \notin DOMAIN Objects
    /\ Has(reply, "id") /\ ~Has(reply, "text")
    /\ reply.id \in issued /\ reply.id \in DOMAIN Objects
    /\ persistCalls = 3

ClearedReply == [error |-> "none", text |-> "Scene cleared"]

\* C6: clear_scene empties the objects map and the connections list and
\* resets the identifier counter to 1; an add_object that succeeds directly
\* after it returns obj_1.
C6_ClearResets ==
    [][ /\ clear_scene =>
             /\ DOMAIN sceneState'.objects = {}
             /\ Len(sceneState'.connections) = 0
             /\ idCounter' = Whole(1)
             /\ reply' = ClearedReply
        /\ (reply = ClearedReply /\ AddObject /\ reply'.error = "none") =>
             /\ reply'.id = "obj_1"
             /\ DOMAIN sceneState'.objects = {"obj_1"}
      ]_vars

\* C6 witness: the counter was loaded as 7 at version 4; two commits later
\* (clear_scene, add_object) obj_1 has been returned.
C6_Witness ==
    /\ reply = [error |-> "none", id |-> "obj_1"]
    /\ issued = {"obj_1"}
    /\ sceneVersion = 6
    /\ persistCalls = 2

\* C7: in every reachable state every key of the objects map equals the id
\* field of the object stored under it.
C7_KeysEqualIds ==
    \A k \in DOMAIN Objects : Objects[k].id = k

\* C8: every object that an add_object or update_object call stores has a
\* color matching ^#[0-9a-fA-F]{6}$.
C8_StoredColorsMatch ==
    [][ (AddObject \/ UpdateObject) =>
          \A k \in DOMAIN sceneState'.objects :
             (k \notin DOMAIN Objects \/ sceneState'.objects[k] # Objects[k]) =>
                 isHexColor(sceneState'.objects[k].color)
      ]_vars

\* the dimensions the data model declares for a kind
DeclaredDimensions(type) ==
    CASE type = "box" -> {"width", "height", "depth"}
      [] type = "sphere" -> {"radius"}
      [] type = "cylinder" -> {"radius", "height"}
      [] type = "cone" -> {"radius", "height"}
      [] type = "plane" -> {"width", "depth"}

\* the request supplies a scale component or a declared dimension <= 0
NonPositive(r) ==
    \/ /\ Has(r.params, "scale")
       /\ \/ r.params.scale.x <= 0
          \/ r.params.scale.y <= 0
          \/ r.params.scale.z <= 0
    \/ \E f \in DeclaredDimensions(r.type) \cap DOMAIN r.params : r.params[f] <= 0

\* C9: add_object rejects with ValidationError, leaving the graph unchanged,
\* a request whose scale component or declared dimension is not greater
\* than 0.
C9_AddRejectsNonPositive ==
    [][ \A r \in AddRequests :
          (add_object(r.type, r.params) /\ NonPositive(r)) =>
             /\ reply'.error = "ValidationError"
             /\ sceneState' = sceneState
      ]_vars

\* C10: while ENABLE_EXECUTE_CODE is not "true", every execute_code call fails
\* with SandboxDisabled and leaves the graph, the identifier counter and the
\* version as they were.
C10_DisabledSandboxRefuses ==
    [][ (ExecuteCode /\ env.ENABLE_EXECUTE_CODE # "true") =>
          /\ reply'.error = "SandboxDisabled"
          /\ UNCHANGED <<sceneState, idCounter, sceneVersion>>
      ]_vars

\* the script threw or ran out of time
ScriptAborted(run) == run.outcome \in {"throws", "timeout"}

\* the script ended with `objects` an object map and `connections` a list
WellFormedScene(run) ==
    /\ run.scene.t = "obj"
    /\ run.scene.objects.t = "map"
    /\ run.scene.connections.t = "array"

\* C11: if the script throws, exceeds its time budget, or ends with objects
\* that is not an object map or connections that is not a list, execute_code
\* fails with SandboxExecutionError, leaves the graph as it was and commits
\* nothing.
C11_BadScriptFails ==
    [][ \A script \in Scripts :
          LET run == RunScript(script, sceneState) IN
          ((ScriptAborted(run) \/ ~WellFormedScene(run)) /\ execute_code(script)) =>
             /\ reply'.error = "SandboxExecutionError"
             /\ UNCHANGED <<sceneState, idCounter, sceneVersion, persistCalls, disk>>
      ]_vars

\* C12: when the script completes with an object map and a list, the graph
\* becomes exactly the script's final objects and connections (what the
\* script removed is gone, what it added or changed is there as it left
\* it), the version goes up by one and persistState is called once.
C12_WholesaleReplace ==
    [][ \A script \in Scripts :
          LET run == RunScript(script, sceneState) IN
          (~ScriptAborted(run) /\ WellFormedScene(run) /\ execute_code(script)) =>
             /\ reply'.error = "none"
             /\ sceneState'.objects = run.scene.objects.v
             /\ sceneState'.connections = run.scene.connections.v
             /\ DOMAIN sceneState' = {"objects", "connections"}
             /\ sceneVersion' = sceneVersion + 1
             /\ persistCalls' = persistCalls + 1
             /\ idCounter' = idCounter
      ]_vars

\* C12 witness: a script has removed obj_1, which the record written by the
\* commit before still holds.
C12_Witness ==
    /\ Has(reply, "result")
    /\ reply.object_count = Cardinality(DOMAIN Objects)
    /\ DiskIsPreviousCommit
    /\ "obj_1" \in DOMAIN disk.fields.sceneState.objects
    /\ "obj_1" \notin DOMAIN Objects
    /\ DOMAIN Objects # {}

\* C13: update_object(id, params) on a present id changes only the fields
\* present in the payload: the object keeps its set of fields, every field
\* of it that the payload names takes the payload's value and every other
\* keeps its value (so a dimension the kind does not declare is ignored,
\* without error, and id and type stay); every other object and every
\* connection is unchanged.
C13_UpdateChangesOnlyGiven ==
    [][ \A id \in TargetIds : \A p \in UpdateParams :
          (id \in DOMAIN Objects /\ ~Malformed(p) /\ update_object(id, p)) =>
             LET old == Objects[id]
                 new == sceneState'.objects[id]
             IN  /\ reply'.error = "none"
                 /\ DOMAIN sceneState'.objects = DOMAIN Objects
                 /\ DOMAIN new = DOMAIN old
                 /\ \A f \in DOMAIN old :
                        new[f] = IF Has(p, f) THEN p[f] ELSE old[f]
                 /\ new.id = old.id /\ new.type = old.type
                 /\ \A k \in DOMAIN Objects \ {id} : sceneState'.objects[k] = Objects[k]
                 /\ sceneState'.connections = Connections
      ]_vars

\* C13 witness: a box was renamed, moved and rescaled by an update that also
\* named a radius; it has no radius and kept its color, and another object
\* is in the graph.
C13_Witness ==
    /\ Has(reply, "id")
    /\ reply.id \in DOMAIN Objects
    /\ LET o == Objects[reply.id] IN
         /\ o.type = "box"
         /\ o.name = "renamed"
         /\ o.position = Vec(4, 6, 8)
         /\ o.scale = Vec(2, 1, 1)
         /\ o.color = Red
         /\ ~Has(o, "radius")
    /\ Cardinality(DOMAIN Objects) >= 2

Plus(u, v) == Vec(u.x + v.x, u.y + v.y, u.z + v.z)
Minus(u, v) == Vec(u.x - v.x, u.y - v.y, u.z - v.z)

\* the object o, moved to position p
MovedTo(o, p) == [f \in DOMAIN o |-> IF f = "position" THEN p ELSE o[f]]

\* C14: connect(from_id, face_a, to_id, face_b) with both ids present and
\* from_id # to_id gives from the position to.position + offset(to, face_b)
\* - offset(from, face_a), so that from.position + offset(from, face_a) =
\* to.position + offset(to, face_b) afterwards; it returns that position,
\* appends the one record (from_id, face_a, to_id, face_b) to the end of
\* the list and changes nothing else.  The placement is checked for every
\* pair of faces, the step for the faces the callers use.
C14_ConnectPlacesFaceOnFace ==
    [][ \A a \in TargetIds : \A b \in TargetIds \ {a} : \A f \in FacePairs :
          ({a, b} \subseteq DOMAIN Objects /\ connect(a, f[1], b, f[2])) =>
             LET from == Objects[a]
                 to == Objects[b]
                 pos == Minus(Plus(to.position, faceOffset(to, f[2])), faceOffset(from, f[1]))
                 after == sceneState'.objects[a]
             IN  /\ reply' = [error |-> "none", from_id |-> a, new_position |-> pos]
                 /\ after = MovedTo(from, pos)
                 /\ Plus(after.position, faceOffset(after, f[1]))
                      = Plus(to.position, faceOffset(to, f[2]))
                 /\ DOMAIN sceneState'.objects = DOMAIN Objects
                 /\ \A k \in DOMAIN Objects \ {a} : sceneState'.objects[k] = Objects[k]
                 /\ sceneState'.connections =
                      Append(Connections, [from_id |-> a, face_a |-> f[1],
                                           to_id |-> b, face_b |-> f[2]])
                 /\ \A fa \in Faces : \A fb \in Faces :
                      LET p == computeConnectPos(from, fa, to, fb) IN
                        /\ p = Minus(Plus(to.position, faceOffset(to, fb)), faceOffset(from, fa))
                        /\ Plus(p, faceOffset(MovedTo(from, p), fa))
                             = Plus(to.position, faceOffset(to, fb))
      ]_vars

\* C14 witness: a connect between two different objects has moved the first
\* off the origin and its record is the last of the list.
C14_Witness ==
    /\ Has(reply, "new_position")
    /\ reply.new_position.y # 0
    /\ Objects[reply.from_id].position = reply.new_position
    /\ Len(Connections) >= 1
    /\ Connections[Len(Connections)].from_id = reply.from_id
    /\ Connections[Len(Connections)].to_id # reply.from_id
    /\ Connections[Len(Connections)].to_id \in DOMAIN Objects

\* the objects and graphs of the acceptance test of the README
AcceptanceBox ==
    [type |-> "box", id |-> "obj_1", name |-> "base", position |-> Vec(0, 0, 0),
     scale |-> Vec(1, 1, 1), color |-> Red, width |-> 200, height |-> 20, depth |-> 100]
AcceptanceCylinder(pos) ==
    [type |-> "cylinder", id |-> "obj_2", name |-> "post", position |-> pos,
     scale |-> Vec(1, 1, 1), color |-> White, radius |-> 10, height |-> 100]
AcceptanceConnection ==
    [from_id |-> "obj_2", face_a |-> "bottom", to_id |-> "obj_1", face_b |-> "top"]
AfterStep1 == [objects |-> ("obj_1" :> AcceptanceBox), connections |-> <<>>]
AfterStep2 ==
    [objects |-> ("obj_1" :> AcceptanceBox) @@ ("obj_2" :> AcceptanceCylinder(Vec(0, 0, 0))),
     connections |-> <<>>]
AfterStep3 ==
    [objects |-> ("obj_1" :> AcceptanceBox) @@ ("obj_2" :> AcceptanceCylinder(Vec(0, 60, 0))),
     connections |-> <<AcceptanceConnection>>]
AfterStep4 ==
    [objects |-> ("obj_1" :> [AcceptanceBox EXCEPT !.color = Blue])
                 @@ ("obj_2" :> AcceptanceCylinder(Vec(0, 60, 0))),
     connections |-> <<AcceptanceConnection>>]

\* C15: the acceptance scenario.  On the empty graph with the counter at 1,
\* adding the box returns obj_1; then adding the cylinder returns obj_2;
\* then connect(obj_2, bottom, obj_1, top) leaves obj_2 at (0, 60, 0); then
\* update_object(obj_1, {color: #0000cc}) changes the color of obj_1 and
\* nothing else.  Each step is checked from the state the step before it
\* leaves; the record written by step 1 loads as that state.
C15_AcceptanceScenario ==
    [][ /\ ( /\ sceneState = [objects |-> EmptyMap, connections |-> <<>>]
             /\ idCounter = Whole(1)
             /\ add_object("box", [name |-> "base", width |-> 200, height |-> 20,
                                   depth |-> 100, color |-> Red]) ) =>
               /\ reply' = [error |-> "none", id |-> "obj_1"]
               /\ sceneState' = AfterStep1
               /\ idCounter' = Whole(2)
               /\ sceneVersion' = sceneVersion + 1
        /\ LoadResult(Serialize(AfterStep1, Whole(2), 1),
                      [objects |-> EmptyMap, connections |-> <<>>], Whole(1), 0)
             = [sceneState |-> AfterStep1, idCounter |-> Whole(2), sceneVersion |-> 1]
        /\ ( /\ sceneState = AfterStep1
             /\ idCounter = Whole(2)
             /\ add_object("cylinder", [name |-> "post", radius |-> 10, height |-> 100,
                                        color |-> White]) ) =>
               /\ reply' = [error |-> "none", id |-> "obj_2"]
               /\ sceneState' = AfterStep2
        /\ ( /\ sceneState = AfterStep2
             /\ connect("obj_2", "bottom", "obj_1", "top") ) =>
               /\ reply' = [error |-> "none", from_id |-> "obj_2",
                            new_position |-> Vec(0, 60, 0)]
               /\ sceneState' = AfterStep3
        /\ ( /\ sceneState = AfterStep3
             /\ update_object("obj_1", [color |-> Blue]) ) =>
               /\ reply' = [error |-> "none", id |-> "obj_1"]
               /\ sceneState' = AfterStep4
      ]_vars

\* C15 witness: the scenario has run to its end, its last three steps in
\* this run (the run began with the record that step 1 writes).
C15_Witness ==
    /\ sceneState = AfterStep4
    /\ reply = [error |-> "none", id |-> "obj_1"]
    /\ sceneVersion = 4
    /\ persistCalls = 3
    /\ idCounter = Whole(3)

\* the documented default of a field
DocumentedDefault(type, f) ==
    CASE f = "position" -> Vec(0, 0, 0)
      [] f = "scale"    -> Vec(1, 1, 1)
      [] f = "color"    -> <<"#", "8", "8", "8", "8", "8", "8">>
      [] f = "width"    -> IF type = "plane" THEN 200 ELSE 100
      [] f = "depth"    -> IF type = "plane" THEN 200 ELSE 100
      [] f = "height"   -> 100
      [] f = "radius"   -> IF type = "sphere" THEN 50 ELSE 25

\* C16: add_object stores every specified field of the kind as given and
\* fills every unspecified one with the documented default: box 100 x 100 x
\* 100, sphere radius 50, cylinder and cone radius 25 and height 100, plane
\* 200 x 200, position (0,0,0), scale (1,1,1), color #888888.
C16_AddFillsDefaults ==
    [][ \A r \in DefaultRequests :
          add_object(r.type, r.params) =>
             /\ reply'.error = "none"
             /\ reply'.id \in DOMAIN sceneState'.objects
             /\ LET o == sceneState'.objects[reply'.id] IN
                  /\ o.type = r.type
                  /\ o.id = reply'.id
                  /\ o.name = r.params.name
                  /\ \A f \in {"position", "scale", "color"} \cup DeclaredDimensions(r.type) :
                       /\ Has(o, f)
                       /\ o[f] = IF Has(r.params, f) THEN r.params[f]
                                 ELSE DocumentedDefault(r.type, f)
      ]_vars

\* C16 witness: a cone added with nothing but a name carries all defaults.
C16_Witness ==
    /\ Has(reply, "id")
    /\ reply.id \in DOMAIN Objects
    /\ LET o == Objects[reply.id] IN
         /\ o.type = "cone"
         /\ o.radius = 25 /\ o.height = 100
         /\ o.position = Vec(0, 0, 0) /\ o.scale = Vec(1, 1, 1)
         /\ Len(o.color) = 7 /\ o.color[2] = "8"

\* what a restarted process holds once its loadPersistedState has run on the
\* file as it is now
Reloaded == LoadResult(disk, [objects |-> EmptyMap, connections |-> <<>>], Whole(1), 0)

InMemory ==
    [sceneState |-> sceneState, idCounter |-> idCounter, sceneVersion |-> sceneVersion]

\* C17: after a commit whose write succeeded, a reload yields the graph and
\* the identifier counter that are in memory and the version that the commit
\* wrote.
C17_RoundTrip ==
    (Serving /\ lastWrite = "ok") => Reloaded = InMemory

\* the round trip of the states whose counter is a whole number
RoundTripOfWholeCounter ==
    (Serving /\ lastWrite = "ok" /\ IsWhole(idCounter)) => Reloaded = InMemory

\* the file is missing, cannot be parsed, or its record lacks the graph, the
\* objects map or the connections list
Unusable(file) ==
    \/ file.kind # "json"
    \/ ~Has(file.fields, "sceneState")
    \/ ~Has(file.fields.sceneState, "objects")
    \/ ~Has(file.fields.sceneState, "connections")

\* C18: whenever the persisted file is missing, cannot be parsed or does not
\* match the schema, loadPersistedState falls back to the empty graph with
\* identifier counter 1 and version 0, whatever else the record carries.
C18_LoadFallsBack ==
    [][ (loadPersistedState /\ Unusable(disk)) =>
          /\ sceneState' = [objects |-> EmptyMap, connections |-> <<>>]
          /\ idCounter' = Whole(1)
          /\ sceneVersion' = 0
      ]_vars

\* C19: the identifier that the first add_object after the load allocates is
\* not the identifier of an object of the loaded graph.
C19_NoCollisionAfterLoad ==
    [][ (persistCalls = 0 /\ AddObject /\ reply'.error = "none") =>
          reply'.id \notin DOMAIN Objects
      ]_vars

\* the record carries a counter that is a number >= 1
CounterUsable(file) ==
    /\ file.kind = "json"
    /\ Has(file.fields, "idCounter")
    /\ file.fields.idCounter.t = "num"
    /\ file.fields.idCounter.v >= Whole(1)

\* values the counter may hold when loadPersistedState is applied to it
PreviousCounters == {Whole(1), Whole(3), Whole(9)}

\* the largest of a non-empty set of numbers
Largest(S) == CHOOSE n \in S : \A m \in S : m <= n

\* the numbers carried as suffix by the identifiers obj_<number>
Suffixes(objects) == {KeyNumber(k) : k \in DOMAIN objects} \ {-1}

\* the counter inferred from the suffixes S, starting from prev
InferredFrom(S, prev) ==
    IF S = {} THEN prev ELSE Max(prev, Largest(S) + Whole(1))

\* C20 as stated: when the persisted counter is absent or invalid, the
\* counter becomes the maximum of its previous value and one plus the
\* largest numeric suffix among the loaded identifiers, and keeps its value
\* when no identifier carries a numeric suffix.
C20_CounterInferredAnySuffix ==
    [][ (loadPersistedState /\ ~CounterUsable(disk)) =>
          idCounter' = InferredFrom(Suffixes(sceneState'.objects), idCounter)
      ]_vars

\* C20, amended: when the persisted counter is absent or invalid, the
\* counter becomes the maximum of its previous value and one plus the
\* largest suffix that is at least 1 among the loaded identifiers
\* obj_<number>, and keeps its value when there is no such identifier; so
\* does loadPersistedState applied to any other previous value.
C20_CounterInferred ==
    [][ (loadPersistedState /\ ~CounterUsable(disk)) =>
          LET S == {n \in Suffixes(sceneState'.objects) : n >= Whole(1)} IN
            /\ idCounter' = InferredFrom(S, idCounter)
            /\ \A prev \in PreviousCounters :
                 LoadResult(disk, sceneState, prev, sceneVersion).idCounter
                   = InferredFrom(S, prev)
      ]_vars

\* C20 witness: a record without a counter whose graph holds obj_3 has been
\* loaded, and the counter is 4.
C20_Witness ==
    /\ Serving
    /\ persistCalls = 0
    /\ disk.kind = "json"
    /\ ~Has(disk.fields, "idCounter")
    /\ "obj_3" \in DOMAIN Objects
    /\ idCounter = Whole(4)

----------------------------------------------------------------------------
(* C21: a failed write is not fatal *)

\* the step is a commit whose write failed
FailedWriteStep ==
    /\ persistCalls' = persistCalls + 1
    /\ lastWrite' = "failed"

\* C21: when the write of a commit fails, the call that committed still
\* returns its success, the server keeps serving, the mutation is in memory
\* (the version is raised, the object the reply names is added, changed or
\* gone, the cleared graph is empty) while the file keeps its content, and a
\* later get_scene_state returns the memory, not the file.
C21_WriteFailureIsNotFatal ==
    [][ /\ FailedWriteStep =>
             /\ reply'.error = "none"
             /\ ~Has(reply', "version")
             /\ pc' = "serving"
             /\ sceneVersion' = sceneVersion + 1
             /\ disk' = disk
             /\ (Has(reply', "id") /\ ~Has(reply', "text")) =>
                    reply'.id \in DOMAIN sceneState'.objects
             /\ (Has(reply', "id") /\ Has(reply', "text")) =>
                    /\ reply'.id \in DOMAIN sceneState.objects
                    /\ reply'.id \notin DOMAIN sceneState'.objects
             /\ Has(reply', "new_position") =>
                    /\ sceneState'.objects[reply'.from_id].position = reply'.new_position
                    /\ Len(sceneState'.connections) = Len(sceneState.connections) + 1
             /\ reply' = ClearedReply =>
                    sceneState' = [objects |-> EmptyMap, connections |-> <<>>]
        /\ (lastWrite = "failed" /\ get_scene_state) =>
             /\ reply'.objects = sceneState.objects
             /\ reply'.connections = sceneState.connections
             /\ reply'.version = sceneVersion
      ]_vars

\* C21 witness: get_scene_state has answered with a graph whose last commit
\* was not written: the memory holds an object and a version that the file
\* does not.
C21_Witness ==
    /\ lastWrite = "failed"
    /\ Has(reply, "version")
    /\ reply.objects = Objects
    /\ reply.version = sceneVersion
    /\ DOMAIN Objects # {}
    /\ disk # Serialize(sceneState, idCounter, sceneVersion)

----------------------------------------------------------------------------
(* C22..C25: interleaved handlers *)

\* the step runs the synchronous part of a handler: a call is dispatched
HandlerStarts == Len(calls') = Len(calls) + 1

\* the commit of call i is not finished: its handler is suspended in
\* persistState
CommitUnderWay(i) == calls[i].at \in {"mkdir", "write"}

\* C22: mutating operations exclude each other from the mutation to the end
\* of the commit write: no handler reads or changes the graph while the
\* commit of another call is under way.
C22_MutationsExcludeEachOther ==
    [][ HandlerStarts => \A i \in 1..Len(calls) : ~CommitUnderWay(i) ]_vars

\* the memory and the result a call gives when it runs alone, from its
\* first statement to its return, on the memory as it is
Alone(op) ==
    LET refused(e) ==
            [sceneState |-> sceneState, idCounter |-> idCounter,
             sceneVersion |-> sceneVersion, result |-> Err(e)]
        done(st, counter, res) ==
            [sceneState |-> st, idCounter |-> counter,
             sceneVersion |-> sceneVersion + 1, result |-> res]
        objs == sceneState.objects
        conns == sceneState.connections
    IN  CASE op.tool = "add_object" ->
               IF ColorRejected(op.params) THEN refused("InvalidColor")
               ELSE LET id == ObjId(idCounter) IN
                    done([objects |-> Put(objs, id, NewObject(op.type, id, op.params)),
                          connections |-> conns],
                         idCounter + Whole(1), [error |-> "none", id |-> id])
          [] op.tool = "update_object" ->
               IF op.id \notin DOMAIN objs THEN refused("NotFound")
               ELSE IF ColorRejected(op.params) THEN refused("InvalidColor")
               ELSE done([objects |-> Put(objs, op.id, UpdatedObject(objs[op.id], op.params)),
                          connections |-> conns],
                         idCounter, [error |-> "none", id |-> op.id])
          [] op.tool = "delete_object" ->
               IF op.id \notin DOMAIN objs THEN refused("NotFound")
               ELSE done([objects |-> Without(objs, op.id),
                          connections |-> WithoutConnectionsOf(conns, op.id)],
                         idCounter,
                         [error |-> "none", text |-> "Deleted object", id |-> op.id])
          [] op.tool = "connect" ->
               IF op.from_id \notin DOMAIN objs \/ op.to_id \notin DOMAIN objs
               THEN refused("NotFound")
               ELSE LET pos == computeConnectPos(objs[op.from_id], op.face_a,
                                                 objs[op.to_id], op.face_b)
                    IN  done([objects |-> Put(objs, op.from_id, MovedTo(objs[op.from_id], pos)),
                              connections |-> Append(conns,
                                  [from_id |-> op.from_id, face_a |-> op.face_a,
                                   to_id |-> op.to_id, face_b |-> op.face_b])],
                             idCounter,
                             [error |-> "none", from_id |-> op.from_id, new_position |-> pos])
          [] op.tool = "clear_scene" ->
               done([objects |-> EmptyMap, connections |-> <<>>], Whole(1), ClearedReply)

\* the step leaves the memory and the reply as `a` says
StepGives(a) ==
    /\ sceneState' = a.sceneState
    /\ idCounter' = a.idCounter
    /\ sceneVersion' = a.sceneVersion
    /\ reply' = a.result

\* Alone is what the one-step handlers of Spec do
AloneIsTheHandler ==
    [][ /\ \A r \in AddRequests :
              add_object(r.type, r.params) =>
                  StepGives(Alone([tool |-> "add_object", type |-> r.type, params |-> r.params]))
        /\ \A id \in TargetIds : \A p \in UpdateParams :
              update_object(id, p) =>
                  StepGives(Alone([tool |-> "update_object", id |-> id, params |-> p]))
        /\ \A id \in TargetIds :
              delete_object(id) => StepGives(Alone([tool |-> "delete_object", id |-> id]))
        /\ \A a \in TargetIds : \A b \in TargetIds : \A f \in FacePairs :
              connect(a, f[1], b, f[2]) =>
                  StepGives(Alone([tool |-> "connect", from_id |-> a, face_a |-> f[1],
                                   to_id |-> b, face_b |-> f[2]]))
        /\ clear_scene => StepGives(Alone([tool |-> "clear_scene"]))
      ]_vars

\* the call that has just started, and the call before it
Newest == calls'[Len(calls')]
DeleteRaces ==
    /\ HandlerStarts
    /\ Len(calls) >= 1
    /\ Newest.op.tool = "delete_object"
    /\ calls[Len(calls)].op = Newest.op
    /\ calls[Len(calls)].result.error = "none"
    /\ CommitUnderWay(Len(calls))

\* C23: however the handlers of add_object, update_object, delete_object,
\* connect and clear_scene interleave, the memory (graph, counter, version)
\* changes only in the step in which a handler starts, and there exactly as
\* if the call ran alone on the memory the calls before it left, with the
\* result it would get alone: the memory is always that of running the calls
\* one at a time in the order they started.  get_scene_state returns the
\* memory of such a point, never a half-applied mutation.  A delete_object
\* that starts while a delete_object of the same identifier is committing
\* gets NotFound and changes nothing: one success, the version raised once,
\* the connections filtered once.
C23_Serializable ==
    [][ /\ HandlerStarts =>
             LET a == Alone(Newest.op) IN
               /\ sceneState' = a.sceneState
               /\ idCounter' = a.idCounter
               /\ sceneVersion' = a.sceneVersion
               /\ Newest.result = a.result
        /\ (~HandlerStarts /\ Serving) =>
               UNCHANGED <<sceneState, idCounter, sceneVersion>>
        /\ \A i \in 1..Len(calls) :
               /\ calls'[i].op = calls[i].op
               /\ calls'[i].result = calls[i].result
               /\ (calls[i].at # "returned" /\ calls'[i].at = "returned") =>
                      reply' = calls[i].result
        /\ get_scene_state =>
               reply' = [error |-> "none", objects |-> sceneState.objects,
                         connections |-> sceneState.connections,
                         version |-> sceneVersion]
        /\ DeleteRaces =>
               /\ Newest.result = Err("NotFound")
               /\ UNCHANGED <<sceneState, idCounter, sceneVersion>>
      ]_vars

\* C23 witness: two delete_object calls of obj_1 are in the list, the first
\* still committing; the first has the success, the second NotFound, the
\* version is one above the loaded one and the connection onto obj_1 is gone.
C23_Witness ==
    /\ Len(calls) = 2
    /\ calls[1].op = [tool |-> "delete_object", id |-> "obj_1"]
    /\ calls[2].op = calls[1].op
    /\ CommitUnderWay(1)
    /\ calls[1].result.error = "none"
    /\ calls[2].result = Err("NotFound")
    /\ sceneVersion = 3
    /\ DOMAIN Objects = {"obj_2"}
    /\ Connections = <<>>

\* every dispatched call has returned
AtRest == Serving /\ \A i \in 1..Len(calls) : calls[i].at = "returned"

\* no persistState of the run has failed
NoWriteFailed == \A i \in 1..Len(calls) : calls[i].write # "failed"

\* C24: once every dispatched operation has finished and no write has
\* failed, the file holds the record of the memory: the graph, the counter
\* and the version as they are (no write of an older state has landed last).
C24_CoherentAtRest ==
    (AtRest /\ NoWriteFailed) => disk = Serialize(sceneState, idCounter, sceneVersion)

\* C25: a mutating call gets its result without waiting for its write: each
\* dispatched call returns, however long fs.writeFile takes to settle (a
\* write that hangs does not hold the result back).
C25_ResultDoesNotWaitForWrite ==
    \A i \in 1..MaxCalls :
        (Len(calls) >= i) ~> (Len(calls) >= i /\ calls[i].at = "returned")

----------------------------------------------------------------------------
(* C27: connections are history *)

\* the step is an update_object or a connect call that moves or resizes
\* object b
MovesOrResizes(b) ==
    /\ persistCalls' = persistCalls + 1
    /\ \/ \E p \in UpdateParams : update_object(b, p)
       \/ \E t \in TargetIds : \E f \in FacePairs : connect(b, f[1], t, f[2])

\* a step that moves or resizes the `to` object of the k-th connection
\* leaves the position of its `from` object and the k-th connection as
\* they were
LeftAlone(k) ==
    LET c == Connections[k] IN
    (c.from_id \in DOMAIN Objects /\ MovesOrResizes(c.to_id)) =>
        /\ c.from_id \in DOMAIN Objects'
        /\ Objects'[c.from_id].position = Objects[c.from_id].position
        /\ Len(Connections') >= k
        /\ Connections'[k] = c

\* C27 as stated: after connect(A, faceA, B, faceB), a later update_object
\* or connect that moves or resizes B leaves the position of A and the
\* recorded connection (A, faceA, B, faceB) unchanged, for every A and B.
C27_ConnectionsAreHistoryAnyPair ==
    [][ \A k \in 1..Len(Connections) : LeftAlone(k) ]_vars

\* C27, amended: the same for every connection whose two objects differ (a
\* connection of an object to itself makes A the object that is moved).
C27_ConnectionsAreHistory ==
    [][ \A k \in 1..Len(Connections) :
            Connections[k].from_id # Connections[k].to_id => LeftAlone(k) ]_vars

\* C27 witness: a connection of two different objects is recorded and its
\* `to` object has been changed since by the call just answered, so that the
\* `from` object is no longer where the connection would put it.
C27_Witness ==
    \E k \in 1..Len(Connections) :
        LET c == Connections[k] IN
        /\ c.from_id # c.to_id
        /\ c.from_id \in DOMAIN Objects
        /\ c.to_id \in DOMAIN Objects
        /\ reply = [error |-> "none", id |-> c.to_id]
        /\ Objects[c.from_id].position #
               computeConnectPos(Objects[c.from_id], c.face_a, Objects[c.to_id], c.face_b)

----------------------------------------------------------------------------
(* C29, C30: the geometry helpers *)

\* h is the per-kind half size of o times its scale, axis by axis (twice
\* the half of a dimension is the dimension)
IsHalfSizeTimesScale(h, o) ==
    LET s == o.scale IN
    CASE o.type = "box" ->
             /\ 2 * h.x = o.width * s.x
             /\ 2 * h.y = o.height * s.y
             /\ 2 * h.z = o.depth * s.z
      [] o.type = "sphere" ->
             /\ h.x = o.radius * s.x
             /\ h.y = o.radius * s.y
             /\ h.z = o.radius * s.z
      [] o.type \in {"cylinder", "cone"} ->
             /\ h.x = o.radius * s.x
             /\ 2 * h.y = o.height * s.y
             /\ h.z = o.radius * s.z
      [] o.type = "plane" ->
             /\ 2 * h.x = o.width * s.x
             /\ h.y = 0
             /\ 2 * h.z = o.depth * s.z

\* the object with another identifier, name, color and position
Elsewhere(o, p) ==
    [f \in DOMAIN o |->
        CASE f = "position" -> p
          [] f = "id" -> "obj_9"
          [] f = "name" -> "elsewhere"
          [] f = "color" -> White
          [] OTHER -> o[f]]

Places == {Vec(0, 0, 0), Vec(-7, 5, 3)}

\* the fields the half extents may depend on
Shape(o) == [f \in DOMAIN o \ {"id", "name", "color", "position"} |-> o[f]]

\* C29: for every object, getHalfExtents is the per-kind half size times the
\* scale (box: width/2, height/2, depth/2; sphere: the radius thrice;
\* cylinder and cone: radius, height/2, radius; plane: width/2, 0,
\* depth/2), and it is the same for the object put anywhere else, under any
\* name, and for any two objects of one kind, dimensions and scale.
C29_HalfExtents ==
    /\ \A id \in DOMAIN Objects :
          /\ IsHalfSizeTimesScale(getHalfExtents(Objects[id]), Objects[id])
          /\ \A p \in Places :
                getHalfExtents(Elsewhere(Objects[id], p)) = getHalfExtents(Objects[id])
    /\ \A a \in DOMAIN Objects : \A b \in DOMAIN Objects :
          Shape(Objects[a]) = Shape(Objects[b]) =>
              getHalfExtents(Objects[a]) = getHalfExtents(Objects[b])

\* C29 witness: a cone that was added away from the origin and rescaled to
\* (3, 1, 2) has been connected; its half extents are (90, 30, 60).
C29_Witness ==
    /\ Has(reply, "new_position")
    /\ "obj_2" \in DOMAIN Objects
    /\ Objects["obj_2"].type = "cone"
    /\ Objects["obj_2"].scale = Vec(3, 1, 2)
    /\ Objects["obj_2"].radius = 30
    /\ Objects["obj_2"].height = 60
    /\ getHalfExtents(Objects["obj_2"]) = Vec(90, 30, 60)

\* the anchor of a face, given the half extents h
Anchor(h, face) ==
    CASE face = "top"    -> Vec(0, h.y, 0)
      [] face = "bottom" -> Vec(0, 0 - h.y, 0)
      [] face = "left"   -> Vec(0 - h.x, 0, 0)
      [] face = "right"  -> Vec(h.x, 0, 0)
      [] face = "front"  -> Vec(0, 0, h.z)
      [] face = "back"   -> Vec(0, 0, 0 - h.z)
      [] face = "center" -> Vec(0, 0, 0)

Negated(v) == Vec(0 - v.x, 0 - v.y, 0 - v.z)

OppositeFaces == { <<"top", "bottom">>, <<"left", "right">>, <<"front", "back">> }

\* the step is a connect call that has succeeded
ConnectSucceeds ==
    /\ persistCalls' = persistCalls + 1
    /\ Has(reply', "new_position")
    /\ Len(Connections') = Len(Connections) + 1

\* C30: faceOffset of an object is the anchor of the face on the half
\* extents of the object as it is now: top (0,+hy,0), bottom (0,-hy,0), left
\* (-hx,0,0), right (+hx,0,0), front (0,0,+hz), back (0,0,-hz), center
\* (0,0,0); opposite faces are negations of each other; and a connect call
\* puts `from` at to.position + anchor(to, face_b) - anchor(from, face_a)
\* with the anchors of the two objects as stored when it runs, whatever
\* update_object has made of their scale and dimensions before.
C30_FaceAnchors ==
    [][ /\ \A id \in DOMAIN Objects :
              LET o == Objects[id] IN
              /\ \A f \in Faces : faceOffset(o, f) = Anchor(getHalfExtents(o), f)
              /\ \A pair \in OppositeFaces :
                    faceOffset(o, pair[1]) = Negated(faceOffset(o, pair[2]))
              /\ IsHalfSizeTimesScale(getHalfExtents(o), o)
        /\ ConnectSucceeds =>
              LET c == Connections'[Len(Connections')]
                  from == Objects[c.from_id]
                  to == Objects[c.to_id]
                  pos == Plus(to.position,
                              Minus(Anchor(getHalfExtents(to), c.face_b),
                                    Anchor(getHalfExtents(from), c.face_a)))
              IN  /\ reply'.new_position = pos
                  /\ Objects'[c.from_id].position = pos
      ]_vars

\* C30 witness: the stored box obj_1 (200 x 20 x 100) was rescaled to
\* (3, 1, 2), then the default sphere obj_2 (radius 50) was connected with
\* its left face onto the right face of obj_1: it stands at x = 300 + 50,
\* not at the 100 + 50 of the scale obj_1 had before.
C30_Witness ==
    /\ reply = [error |-> "none", from_id |-> "obj_2", new_position |-> Vec(350, 0, 0)]
    /\ Objects["obj_1"].scale = Vec(3, 1, 2)
    /\ Objects["obj_2"].type = "sphere"
    /\ Connections = << [from_id |-> "obj_2", face_a |-> "left",
                         to_id |-> "obj_1", face_b |-> "right"] >>

----------------------------------------------------------------------------
(* C26: snapshots *)

\* the memory is the graph the references of sceneState denote
MemoryIsTheHeap == Serving => sceneState = Deref(heap)

\* the references a caller holds: those returned and those the returned
\* maps hold
HandedOut(h) ==
    h.handed \cup
    UNION { {h.maps[m][id] : id \in DOMAIN h.maps[m]} : m \in h.handed \cap DOMAIN h.maps }

\* the references of the graph in use: the map and the list of sceneState
\* and the objects of the map
Internal(h) ==
    {h.objectsAt, h.connectionsAt} \cup
    {h.maps[h.objectsAt][id] : id \in DOMAIN h.maps[h.objectsAt]}

\* the value a returned map or list denotes
Denoted(h, a) ==
    IF a \in DOMAIN h.maps
    THEN [kind |-> "map", objects |-> [id \in DOMAIN h.maps[a] |-> h.objs[h.maps[a][id]]]]
    ELSE [kind |-> "list", connections |-> h.lists[a]]

\* the step is a mutating call that has committed
Commits == persistCalls' = persistCalls + 1

\* the graphs returned so far are as they were before the step
SnapshotsKept == \A a \in heap.handed : Denoted(heap', a) = Denoted(heap, a)

\* a later mutating call leaves every returned graph as it was
LaterMutationsKeepSnapshots == [][ Commits => SnapshotsKept ]_vars

\* C26: a snapshot is a deep, immutable copy: a later mutating call leaves
\* every graph that get_scene_state has returned as it was; a write through
\* a returned graph leaves the graph of the server as it was; and no
\* returned reference is a reference of the graph in use.
C26_SnapshotsAreDeepCopies ==
    [][ /\ Commits => SnapshotsKept
        /\ (HolderRecolors \/ HolderDrops) => sceneState' = sceneState
        /\ HandedOut(heap') \cap Internal(heap') = {}
      ]_vars

\* C26 taken without its last clause: writes through returned graphs do
\* not reach the graph of the server
WritesStayOutside ==
    [][ (HolderRecolors \/ HolderDrops) => sceneState' = sceneState ]_vars

----------------------------------------------------------------------------
(* C31: the self-connection *)

\* C31: connect(id, face_a, id, face_b) on a present object succeeds: it
\* returns no error, appends the record (id, face_a, id, face_b) to the
\* list and moves the object by anchor(face_b) - anchor(face_a), the
\* anchors taken on the object's own half extents; nothing else of the
\* graph changes, and with face_a = face_b = center the position stays.
C31_SelfConnectionAccepted ==
    [][ \A a \in DOMAIN Objects : \A fa \in Faces : \A fb \in Faces :
          connect(a, fa, a, fb) =>
             LET o == Objects[a]
                 h == getHalfExtents(o)
                 pos == Plus(o.position, Minus(Anchor(h, fb), Anchor(h, fa)))
             IN  /\ reply' = [error |-> "none", from_id |-> a, new_position |-> pos]
                 /\ Objects' = Put(Objects, a, MovedTo(o, pos))
                 /\ Connections' =
                      Append(Connections, [from_id |-> a, face_a |-> fa,
                                           to_id |-> a, face_b |-> fb])
                 /\ (fa = "center" /\ fb = "center") => Objects'[a].position = o.position
                 /\ sceneVersion' = sceneVersion + 1
      ]_vars

\* C31 witness: the stored box obj_1 (height 20) was connected with its
\* bottom face onto its own top face and stands 20 higher.
C31_Witness ==
    /\ reply = [error |-> "none", from_id |-> "obj_1", new_position |-> Vec(0, 20, 0)]
    /\ Objects["obj_1"].position = Vec(0, 20, 0)
    /\ Connections = << [from_id |-> "obj_1", face_a |-> "bottom",
                         to_id |-> "obj_1", face_b |-> "top"] >>

----------------------------------------------------------------------------
(* C32: records of an older format *)

\* the record holds a graph with its objects map and its connections list
\* and no version field
GraphWithoutVersion(file) ==
    /\ file.kind = "json"
    /\ Has(file.fields, "sceneState")
    /\ Has(file.fields.sceneState, "objects")
    /\ Has(file.fields.sceneState, "connections")
    /\ ~Has(file.fields, "sceneVersion")

\* C32: loadPersistedState on a record that holds a valid graph and no
\* version field leaves the server with that graph and with version 0,
\* whatever the record says of the identifier counter.
C32_OlderRecordLoadsAsVersionZero ==
    [][ (loadPersistedState /\ GraphWithoutVersion(disk)) =>
          /\ sceneState' = disk.fields.sceneState
          /\ sceneVersion' = 0
      ]_vars

\* C32 witness: the server has loaded a record that holds one box, a counter
\* and no version, and serves that box at version 0.
C32_Witness ==
    /\ Serving
    /\ persistCalls = 0
    /\ disk = JsonFile([sceneState |-> OlderScene, idCounter |-> JNum(Whole(7))])
    /\ sceneState = OlderScene
    /\ sceneVersion = 0
    /\ Has(reply, "version") /\ reply.version = 0

----------------------------------------------------------------------------
(* C33: the version counter *)

\* C33: once the server serves, the version never decreases; a step that
\* commits (calls persistState) raises it by exactly one, whether the write
\* lands or fails, and no other step changes it; clear_scene empties the
\* graph and sets the identifier counter to 1 and, as every commit, raises
\* the version by one instead of resetting it.
C33_VersionMonotonic ==
    [][ Serving =>
          /\ sceneVersion' >= sceneVersion
          /\ IF persistCalls' # persistCalls
             THEN /\ sceneVersion' = sceneVersion + 1
                  /\ lastWrite' \in {"ok", "failed"}
             ELSE sceneVersion' = sceneVersion
          /\ clear_scene =>
                /\ sceneState' = [objects |-> EmptyMap, connections |-> <<>>]
                /\ idCounter' = Whole(1)
                /\ sceneVersion' = sceneVersion + 1
      ]_vars

\* C33 witness: the server loaded version 3, committed once (the file holds
\* version 4), and then cleared the scene with a write that failed: the
\* graph is empty, the counter is 1 and the version is 5.
C33_Witness ==
    /\ reply = [error |-> "none", text |-> "Scene cleared"]
    /\ lastWrite = "failed"
    /\ Objects = EmptyMap
    /\ idCounter = Whole(1)
    /\ sceneVersion = 5
    /\ disk.kind = "json"
    /\ disk.fields.sceneVersion = JNum(Whole(4))

----------------------------------------------------------------------------
(* C34: add_object and the identifiers already in the graph *)

\* C34: in every state the server serves, the identifier that the next
\* add_object allocates is not a key of the objects map.
C34_AddNeverOverwrites ==
    Serving => nextId.id \notin DOMAIN Objects

\* the same of execute_code alone: a script that succeeds from a state whose
\* next identifier is free leaves the next identifier free
SandboxKeepsNextIdFree ==
    [][ (Serving /\ ExecuteCode /\ reply'.error = "none"
           /\ nextId.id \notin DOMAIN Objects)
          => ObjId(idCounter') \notin DOMAIN Objects'
      ]_vars

----------------------------------------------------------------------------
(* C35: startup *)

\* the memory as the module creates it (lines 435-437)
FreshMemory ==
    /\ sceneState = [objects |-> EmptyMap, connections |-> <<>>]
    /\ idCounter = Whole(1)
    /\ sceneVersion = 0

\* C35: loadPersistedState runs once, at startup: a step of it starts from
\* the memory as created, with no call answered and nothing committed, and
\* ends the startup for good; until it has run no call is answered and
\* nothing is committed, and the memory stays as created.
C35_LoadOnceBeforeServing ==
    [][ /\ loadPersistedState =>
              /\ pc = "boot" /\ pc' = "serving"
              /\ FreshMemory
              /\ persistCalls = 0 /\ reply = NoReply /\ calls = <<>>
        /\ pc = "serving" => (pc' = "serving" /\ ~loadPersistedState)
        /\ pc = "boot" =>
              /\ FreshMemory
              /\ loadPersistedState
      ]_vars

\* C35 witness: the server loaded the stored box and then added a second
\* object; both are in the graph.
C35_Witness ==
    /\ Serving
    /\ reply = [error |-> "none", id |-> "obj_2"]
    /\ DOMAIN Objects = {"obj_1", "obj_2"}
    /\ Objects["obj_1"] = StoredBox("obj_1")
    /\ sceneVersion = 2

----------------------------------------------------------------------------
(* C36: the records handed to fs.writeFile *)

\* the memory (graph, counter, version) a call leaves when it runs alone on
\* the memory m
RunAlone(m, op) ==
    LET objs == m.sceneState.objects
        conns == m.sceneState.connections
        done(st, counter) ==
            [sceneState |-> st, idCounter |-> counter, sceneVersion |-> m.sceneVersion + 1]
    IN  CASE op.tool = "add_object" ->
               IF ColorRejected(op.params) THEN m
               ELSE LET id == ObjId(m.idCounter) IN
                    done([objects |-> Put(objs, id, NewObject(op.type, id, op.params)),
                          connections |-> conns],
                         m.idCounter + Whole(1))
          [] op.tool = "update_object" ->
               IF op.id \notin DOMAIN objs \/ ColorRejected(op.params) THEN m
               ELSE done([objects |-> Put(objs, op.id, UpdatedObject(objs[op.id], op.params)),
                          connections |-> conns],
                         m.idCounter)
          [] op.tool = "delete_object" ->
               IF op.id \notin DOMAIN objs THEN m
               ELSE done([objects |-> Without(objs, op.id),
                          connections |-> WithoutConnectionsOf(conns, op.id)],
                         m.idCounter)
          [] op.tool = "connect" ->
               IF op.from_id \notin DOMAIN objs \/ op.to_id \notin DOMAIN objs THEN m
               ELSE LET pos == computeConnectPos(objs[op.from_id], op.face_a,
                                                 objs[op.to_id], op.face_b)
                    IN  done([objects |-> Put(objs, op.from_id, MovedTo(objs[op.from_id], pos)),
                              connections |-> Append(conns,
                                  [from_id |-> op.from_id, face_a |-> op.face_a,
                                   to_id |-> op.to_id, face_b |-> op.face_b])],
                             m.idCounter)
          [] op.tool = "clear_scene" ->
               done([objects |-> EmptyMap, connections |-> <<>>], Whole(1))

\* the memory the server of InterleavedSpec has after its load
LoadedMemory == [sceneState |-> TwoBoxes, idCounter |-> Whole(3), sceneVersion |-> 2]

\* the memory at the instant after the k-th call has started
RECURSIVE MemoryAfter(_)
MemoryAfter(k) ==
    IF k = 0 THEN LoadedMemory ELSE RunAlone(MemoryAfter(k - 1), calls[k].op)

\* the memory is the one after the last call
MemoryIsTheLastInstant == Serving => InMemory = MemoryAfter(Len(calls))

\* the record is the graph, the counter and the version of the memory m
RecordOfMemory(data, m) == data = Serialize(m.sceneState, m.idCounter, m.sceneVersion)

\* C36: every record handed to fs.writeFile is the graph, the identifier
\* counter and the version that the memory held together at one instant, at
\* or after the mutation of the call that writes it: no record pairs the
\* version of one mutation with the graph or the counter of another state.
C36_RecordsAreOfOneInstant ==
    \A i \in 1..Len(calls) :
        calls[i].data # NoFile =>
            \E k \in i..Len(calls) : RecordOfMemory(calls[i].data, MemoryAfter(k))

\* C36 witness: the first call was suspended at fs.mkdir while a second call
\* changed the memory; the record the first call hands to fs.writeFile is
\* the memory of after the second call, version 4.
C36_Witness ==
    /\ Len(calls) = 2
    /\ calls[1].result.error = "none"
    /\ calls[2].result.error = "none"
    /\ calls[1].at = "write"
    /\ RecordOfMemory(calls[1].data, MemoryAfter(2))
    /\ calls[1].data.fields.sceneVersion = JNum(Whole(4))
    /\ ~RecordOfMemory(calls[1].data, MemoryAfter(1))

----------------------------------------------------------------------------
(* C37: connect, repeated *)

\* the last call that changed the graph was connect(a, fa, b, fb), and it
\* succeeded
JustConnected(a, fa, b, fb) ==
    /\ Has(reply, "new_position")
    /\ reply.from_id = a
    /\ Len(Connections) >= 1
    /\ Connections[Len(Connections)] =
           [from_id |-> a, face_a |-> fa, to_id |-> b, face_b |-> fb]

\* C37: for from # to, the position connect gives to `from` does not depend
\* on the position `from` has, and connecting once more from the result
\* gives the same position again, for every pair of faces; a connect call
\* that repeats the one just made returns the same position, leaves every
\* object as it is (`from` stays, `to` is not moved) and appends one more
\* copy of the record.
C37_ConnectIdempotentOnPosition ==
    [][ ConnectSucceeds =>
          LET c == Connections'[Len(Connections')]
              from == Objects[c.from_id]
              to == Objects[c.to_id]
          IN  c.from_id # c.to_id =>
                /\ \A fa \in Faces : \A fb \in Faces :
                      LET pos == computeConnectPos(from, fa, to, fb) IN
                        /\ \A p \in Places :
                              computeConnectPos(MovedTo(from, p), fa, to, fb) = pos
                        /\ computeConnectPos(MovedTo(from, pos), fa, to, fb) = pos
                /\ Objects'[c.to_id] = to
                /\ JustConnected(c.from_id, c.face_a, c.to_id, c.face_b) =>
                      /\ reply' = reply
                      /\ Objects' = Objects
                      /\ Objects'[c.from_id].position = reply.new_position
                      /\ Connections' = Append(Connections, c)
      ]_vars

\* C37 witness: the same connect between two different objects was made
\* twice; the list ends with two copies of the record and `from` stands
\* where the first call put it, off the origin.
C37_Witness ==
    /\ Len(Connections) >= 2
    /\ Connections[Len(Connections)] = Connections[Len(Connections) - 1]
    /\ Connections[Len(Connections)].from_id # Connections[Len(Connections)].to_id
    /\ JustConnected(Connections[Len(Connections)].from_id, "bottom",
                     Connections[Len(Connections)].to_id, "top")
    /\ Objects[reply.from_id].position = reply.new_position
    /\ reply.new_position.y # 0
    /\ Objects[Connections[Len(Connections)].to_id].position = Vec(0, 0, 0)

----------------------------------------------------------------------------
(* C38: the dimension fields of an object *)

\* the object carries the dimension fields of its kind and no other
HasDimensionsOfItsKind(o) ==
    /\ o.type \in Types
    /\ DOMAIN o \cap DimensionFields = DeclaredDimensions(o.type)

\* C38: in a graph built by add_object, update_object and connect, every
\* object carries exactly the dimension fields of its kind (box: width,
\* height, depth; sphere: radius; cylinder and cone: radius, height; plane:
\* width, depth), before and after every call: add_object stores none of
\* the dimensions supplied for another kind, and no call changes the kind or
\* the id of an object that stays in the graph.
C38_DimensionsOfItsKind ==
    [][ /\ \A id \in DOMAIN Objects : HasDimensionsOfItsKind(Objects[id])
        /\ \A id \in DOMAIN Objects' : HasDimensionsOfItsKind(Objects'[id])
        /\ \A id \in DOMAIN Objects \cap DOMAIN Objects' :
              /\ Objects'[id].type = Objects[id].type
              /\ Objects'[id].id = Objects[id].id
      ]_vars

\* C38 witness: a sphere was added with every optional field given (width,
\* height and depth among them), then update_object was called on it with a
\* height and a radius: it carries the new radius and no other dimension.
C38_Witness ==
    /\ "obj_2" \in DOMAIN Objects
    /\ Objects["obj_2"].type = "sphere"
    /\ Objects["obj_2"].position = Vec(2, 4, 6)
    /\ Objects["obj_2"].radius = 8
    /\ DOMAIN Objects["obj_2"] \cap DimensionFields = {"radius"}
    /\ reply = [error |-> "none", id |-> "obj_2"]
    /\ persistCalls = 2

----------------------------------------------------------------------------
(* C39: the identifier counter *)

\* the identifier has the form obj_<positive integer>
IsObjPositiveInteger(id) == \E n \in 1..(MaxIdNumber + 1) : id = ObjId(Whole(n))

\* C39: the identifier counter is an integer >= 1 in every state, directly
\* after loadPersistedState of any record included, and every identifier
\* add_object has returned has the form obj_<positive integer>.
C39_CounterIsPositiveInteger ==
    /\ IsWhole(idCounter)
    /\ idCounter >= Whole(1)
    /\ Has(reply, "id") => IsObjPositiveInteger(reply.id)

\* the second half on its own: the identifiers add_object returns
AllocatedIdsArePositiveIntegers ==
    Has(reply, "id") => IsObjPositiveInteger(reply.id)

====
